---- MODULE Spec2Model ----
(***************************************************************************)
(* Booking orchestrator of mcp-dataverse-server: the MCP tools of          *)
(* server.py, CustomerSelfServiceSchedulingService of                      *)
(* scheduling_service_customer.py and the DataverseClient calls they make. *)
(* Several tool calls may be in flight at once; a call is interleaved with *)
(* the others at its vendor (network) calls.  Instants are minutes.        *)
(***************************************************************************)
EXTENDS Integers, Sequences, FiniteSets, TLC

\* ------------------------------------------------------------------ bounds
MaxCalls == 2
MaxRawSlots == 2

\* Every tool call runs on a worker of its own; calls are numbered in the
\* order in which they start, and call n creates the records numbered n.
Procs == 1..MaxCalls

\* ------------------------------------------------------- timestamp strings
\* A timestamp string is a wall-clock reading and a zone suffix.
ZoneOffset(zone) == IF zone = "+01:00" THEN 60 ELSE 0

IsIsoString(s) == s.zone \in {"Z", "+00:00", "+01:00"}

\* dataverse._parse_iso_datetime: the instant in UTC.
_parse_iso_datetime(s) == s.clock - ZoneOffset(s.zone)

\* dataverse._iso: always the Z-terminated UTC form.
_iso(t) == [clock |-> t, zone |-> "Z"]

\* dataverse._normalize_guid: strip blanks and one pair of braces.
_normalize_guid(v) ==
    IF v = "{c1}" THEN "c1"
    ELSE IF v = " c1 " THEN "c1"
    ELSE v

\* ------------------------------------------------------------------ inputs
ContactInputs == {"c1", "{c1}"}

TS(c, z) == [clock |-> c, zone |-> z]

WindowIds ==
    { <<TS(60, "Z"), TS(120, "Z")>>,
      <<TS(120, "+01:00"), TS(180, "+00:00")>>,
      <<TS(60, "Z")>>,
      <<TS(60, "Z"), TS(120, "Z"), TS(180, "Z")>>,
      <<TS(60, "bad"), TS(120, "Z")>> }

PreferredInputs ==
    { TS(0, "Z"), TS(60, "Z"), TS(120, "+01:00"), TS(150, "Z"), TS(60, "bad") }

Durations == {60}

Scenarios == {"boiler_repair"}

\* ------------------------------------------------------------- idempotency
\* scheduling_service_customer._compute_idempotency_key
_compute_idempotency_key(env, contact, ws, we, ps, dur, scenario) ==
    <<env, scenario, _normalize_guid(contact), _iso(ws), _iso(we), _iso(ps), dur>>

EnvironmentId == "org|v9.2"

NoRecord == [case |-> 0, wo |-> 0, req |-> 0, booking |-> 0, start |-> 0, end |-> 0]

\* _IdempotencyStore.get on the file's map
IdemGet(st, key) == IF key \in DOMAIN st THEN st[key] ELSE NoRecord

\* _IdempotencyStore.put: read all, set the key, replace the file
IdemPut(st, key, value) ==
    [k \in (DOMAIN st) \cup {key} |-> IF k = key THEN value ELSE st[k]]

VARIABLES settings, cases, workOrders, requirements, bookings, store,
          calls, proc, writeLog

\* State of the availability search: the wall clock, the platform's free
\* time slots and the way it answers each action, the service's TTL cache, the last search, the tool calls
\* still to come, and the bookings made by slot number.
VARIABLES now, ticks, vendorSlots, vendorPlatform, pending, cache,
          lastSearch, slotBookings

searchVars == <<now, ticks, vendorSlots, vendorPlatform, pending, cache,
                lastSearch, slotBookings>>

orchestratorVars == <<cases, workOrders, requirements, bookings, store,
                      calls, proc, writeLog>>

\* State of the vendor client on its own: the booking table's schema as the
\* platform has it and what one create_booking_for_requirement call did.
VARIABLES bookingSchema, bookingCall

createVars == <<bookingSchema, bookingCall>>

\* State of the idempotency store of one server process and its file: the
\* file and its ".tmp" sibling on disk, the holder of the store's lock, each
\* thread's position inside put, the keys whose put has returned, what the
\* last get read, and the puts and crashes so far.
VARIABLES storeFile, tmpFile, lockHolder, putters, completedPuts, lastGet,
          putsStarted, crashes

fileVars == <<storeFile, tmpFile, lockHolder, putters, completedPuts, lastGet,
              putsStarted, crashes>>

\* State of one wait_for_work_order_resource_requirements call: the monotonic
\* clock in tenths of a second, the call's position, deadline and polls, and
\* whether the platform has created the work order's requirement.
VARIABLES pollClock, poller, vendorRequirement

pollVars == <<pollClock, poller, vendorRequirement>>

\* State of one availability-window computation: the wall clock (an instant
\* in seconds, as for the search) and what the last call was given and
\* returned.
VARIABLES windowNow, lastWindow

windowVars == <<windowNow, lastWindow>>

\* State of the capability probe of one client: the platform's schema
\* document and its answer to an empty-payload POST of an action, the
\* client's two caches, the last probe and the probes still to come.
VARIABLES schemaDocument, postAnswer, action_name_cache, action_probe_cache,
          lastProbe, probesLeft

probeVars == <<schemaDocument, postAnswer, action_name_cache, action_probe_cache,
               lastProbe, probesLeft>>

clientVars == <<createVars, fileVars, pollVars, windowVars, probeVars>>

exceptCreate == <<settings, orchestratorVars, searchVars, fileVars, pollVars, windowVars,
                  probeVars>>

exceptFile == <<settings, orchestratorVars, searchVars, createVars, pollVars, windowVars,
                probeVars>>

exceptPoll == <<settings, orchestratorVars, searchVars, createVars, fileVars, windowVars,
                probeVars>>

exceptWindow == <<settings, orchestratorVars, searchVars, createVars, fileVars, pollVars,
                  probeVars>>

exceptProbe == <<settings, orchestratorVars, searchVars, createVars, fileVars, pollVars,
                 windowVars>>

vars == <<settings, cases, workOrders, requirements, bookings, store,
          calls, proc, writeLog, searchVars, clientVars>>

\* ------------------------------------------------------------ result shapes
NoResult ==
    [status |-> "none", replay |-> FALSE, raised |-> "", msg |-> "",
     case |-> 0, wo |-> 0, req |-> 0, booking |-> 0, start |-> 0, end |-> 0]

Idle ==
    [pc |-> "idle", call |-> 0, key |-> <<>>,
     ws |-> 0, we |-> 0, ps |-> 0, pe |-> 0, dur |-> 0,
     seen |-> NoRecord, existing |-> NoRecord, verify |-> "none",
     case |-> 0, wo |-> 0, req |-> 0, booking |-> 0,
     res |-> NoResult]

\* The dict a tool hands back without an exception having been raised.
Result(status, msg, case, wo, req, booking, start, end) ==
    [status |-> status, replay |-> FALSE, raised |-> "", msg |-> msg,
     case |-> case, wo |-> wo, req |-> req, booking |-> booking,
     start |-> start, end |-> end]

\* An exception left `method`; server.py's `except Exception as e` turned it
\* into the tool's own error dict, which holds only status, message, details.
ToolCaught(method, msg) ==
    [NoResult EXCEPT !.status = "error", !.raised = method, !.msg = msg]

\* The "blocked" dict of a gated tool; its message names the tool's writes.
Blocked(tool) == [NoResult EXCEPT !.status = "blocked", !.msg = tool]

Done(l, r) == [l EXCEPT !.pc = "done", !.res = r]

\* One create (POST <entity set>) or update (PATCH) request sent to the vendor.
Write(l, method, entity) ==
    [call |-> l.call, method |-> method, entity |-> entity]

\* ------------------------------------------------- tools and their write gate
ScheduleTools == {"schedule_boiler_repair", "book_boiler_repair"}

UpdateTools == {"update_contact", "update_case", "update_work_order"}

UpdateEntity(tool) ==
    IF tool = "update_contact" THEN "contacts"
    ELSE IF tool = "update_case" THEN "incidents"
    ELSE "msdyn_workorders"

\* A work order created upstream, with its auto-created requirement.
UpstreamWorkOrder == MaxCalls + 1

\* schedule_customer_request with the idempotency lookup left out.
schedule_customer_request_without_lookup(l, st, contact, wid, pref, dur, scenario) ==
    IF ~(Len(wid) = 2 /\ IsIsoString(wid[1]) /\ IsIsoString(wid[2]))
    THEN Done(l, ToolCaught("schedule_customer_request", "invalid_window_id"))
    ELSE IF ~IsIsoString(pref)
    THEN Done(l, ToolCaught("schedule_customer_request", "invalid_preferred_start"))
    ELSE
      LET ws == _parse_iso_datetime(wid[1])
          we == _parse_iso_datetime(wid[2])
          ps == _parse_iso_datetime(pref)
          pe == ps + dur
          key == _compute_idempotency_key(EnvironmentId, contact, ws, we, ps, dur, scenario)
          l1 == [l EXCEPT !.ws = ws, !.we = we, !.ps = ps, !.pe = pe, !.dur = dur]
      IN  IF ps < ws \/ pe > we
          THEN Done(l1, Result("error", "outside_window", 0, 0, 0, 0, ps, pe))
          ELSE [l1 EXCEPT !.key = key, !.pc = "chain"]

\* schedule_customer_request checking only the start against the window.
schedule_customer_request_start_only(l, st, contact, wid, pref, dur, scenario) ==
    IF ~(Len(wid) = 2 /\ IsIsoString(wid[1]) /\ IsIsoString(wid[2]))
    THEN Done(l, ToolCaught("schedule_customer_request", "invalid_window_id"))
    ELSE IF ~IsIsoString(pref)
    THEN Done(l, ToolCaught("schedule_customer_request", "invalid_preferred_start"))
    ELSE
      LET ws == _parse_iso_datetime(wid[1])
          we == _parse_iso_datetime(wid[2])
          ps == _parse_iso_datetime(pref)
          pe == ps + dur
          key == _compute_idempotency_key(EnvironmentId, contact, ws, we, ps, dur, scenario)
          existing == IdemGet(st, key)
          l1 == [l EXCEPT !.ws = ws, !.we = we, !.ps = ps, !.pe = pe, !.dur = dur]
      IN  IF ps < ws
          THEN Done(l1, Result("error", "outside_window", 0, 0, 0, 0, ps, pe))
          ELSE IF existing.booking # 0
          THEN [l1 EXCEPT !.key = key, !.seen = existing, !.existing = existing,
                          !.pc = "verify"]
          ELSE [l1 EXCEPT !.key = key, !.seen = existing, !.pc = "chain"]

\* ------------------------------------------- schedule_customer_request, entry
\* Lines 630-676 up to the first vendor call: parse, validate, look up the key.
schedule_customer_request(l, st, contact, wid, pref, dur, scenario) ==
    IF ~(Len(wid) = 2 /\ IsIsoString(wid[1]) /\ IsIsoString(wid[2]))
    THEN Done(l, ToolCaught("schedule_customer_request", "invalid_window_id"))
    ELSE IF ~IsIsoString(pref)
    THEN Done(l, ToolCaught("schedule_customer_request", "invalid_preferred_start"))
    ELSE
      LET ws == _parse_iso_datetime(wid[1])
          we == _parse_iso_datetime(wid[2])
          ps == _parse_iso_datetime(pref)
          pe == ps + dur
          key == _compute_idempotency_key(EnvironmentId, contact, ws, we, ps, dur, scenario)
          existing == IdemGet(st, key)
          l1 == [l EXCEPT !.ws = ws, !.we = we, !.ps = ps, !.pe = pe, !.dur = dur]
      IN  IF ps < ws \/ pe > we
          THEN Done(l1, Result("error", "outside_window", 0, 0, 0, 0, ps, pe))
          ELSE IF existing.booking # 0
          THEN [l1 EXCEPT !.key = key, !.seen = existing, !.existing = existing,
                          !.pc = "verify"]
          ELSE [l1 EXCEPT !.key = key, !.seen = existing, !.pc = "chain"]

\* server.book_boiler_repair, lines 1032-1051: the slot id becomes the window
\* id and the preferred start is the window's start.
book_boiler_repair(l, st, contact, slot_id, dur) ==
    IF Len(slot_id) = 3
    THEN schedule_customer_request(l, st, contact, <<slot_id[2], slot_id[3]>>,
                                   slot_id[2], dur, "boiler_repair")
    ELSE IF Len(slot_id) = 2
    THEN schedule_customer_request(l, st, contact, slot_id, slot_id[1], dur,
                                   "boiler_repair")
    ELSE Done(l, Result("error", "invalid_slot_id", 0, 0, 0, 0, 0, 0))

\* ------------------------------------------------------- vendor call outcomes
\* A vendor call either gets its answer or fails (HTTP error, timeout, auth).
Outcomes == {"ok", "fail"}

BookingExists(id) == \E b \in bookings : b.id = id /\ b.live

\* DataverseClient._get of bookableresourcebookings(<id>): raises unless the
\* call went through and the record is there.
GetBookingSucceeds(id, outcome) == outcome = "ok" /\ BookingExists(id)

\* The chain under construction, as `out` of lines 768-782.
Chain(l) ==
    [case |-> l.case, wo |-> l.wo, req |-> l.req, booking |-> l.booking,
     start |-> l.ps, end |-> l.pe]

ChainResult(status, msg, l) ==
    Result(status, msg, l.case, l.wo, l.req, l.booking, l.ps, l.pe)

\* Line 673: {"status": "ok", "idempotent_replay": True, **existing}
ReplayResult(existing) ==
    [status |-> "ok", replay |-> TRUE, raised |-> "", msg |-> "",
     case |-> existing.case, wo |-> existing.wo, req |-> existing.req,
     booking |-> existing.booking, start |-> existing.start, end |-> existing.end]

\* The replay guard answering with the cached chain whatever the GET said.
AfterVerify_trusting_cache(l, found) ==
    IF l.pc # "verify" THEN l
    ELSE Done(l, ReplayResult(l.existing))

\* Lines 664-676: the stale-replay guard.  `found` is whether the GET of the
\* stored booking id returned the record; any failure of it reads as stale.
AfterVerify(l, found) ==
    IF l.pc # "verify" THEN l
    ELSE IF found
    THEN Done(l, ReplayResult(l.existing))
    ELSE [l EXCEPT !.existing = NoRecord, !.pc = "chain"]

\* What the platform holds for the booking stored under `key` when the call
\* starts: nothing stored ("none"), the GET answers with the record ("ok"),
\* the record is there but the GET fails ("transient"), the record is gone
\* ("absent").
VendorAnswer(key, outcome) ==
    LET stored == IdemGet(store, key).booking
    IN  IF stored = 0 THEN "none"
        ELSE IF GetBookingSucceeds(stored, outcome) THEN "ok"
        ELSE IF BookingExists(stored) THEN "transient"
        ELSE "absent"

\* server.schedule_boiler_repair / book_boiler_repair: the write gate, then
\* schedule_customer_request up to and including the replay guard.
ScheduleStart(p) ==
    /\ proc[p].pc = "idle"
    /\ p = calls + 1
    /\ \E tool \in ScheduleTools, contact \in ContactInputs, wid \in WindowIds,
          pref \in PreferredInputs, dur \in Durations, scenario \in Scenarios,
          outcome \in Outcomes :
          LET l == [Idle EXCEPT !.call = p]
              entered == IF tool = "book_boiler_repair"
                         THEN book_boiler_repair(l, store, contact, wid, dur)
                         ELSE schedule_customer_request(l, store, contact, wid,
                                                        pref, dur, scenario)
              verified == AfterVerify(entered,
                              GetBookingSucceeds(entered.existing.booking, outcome))
          IN  proc' = [proc EXCEPT ![p] =
                         IF ~settings.allow_writes THEN Done(l, Blocked(tool))
                         ELSE [verified EXCEPT
                                 !.verify = VendorAnswer(entered.key, outcome)]]
    /\ calls' = calls + 1
    /\ UNCHANGED <<settings, cases, workOrders, requirements, bookings, store,
                   writeLog>>
    /\ UNCHANGED searchVars
    /\ UNCHANGED clientVars

\* ------------------------------------------------- availability (normalizer)
\* What the platform may answer to an availability action for the appointment
\* [ps, pe): time slots of some resource (or of none), at the requested times,
\* at the same instants written with another suffix, or half an hour later.
RawSlotPool(ps, pe) ==
    { [resource |-> "r1", start |-> TS(ps + d, "Z"), end |-> TS(pe + d, "Z")] :
         d \in {0, 30} }
    \cup { [resource |-> "", start |-> TS(ps, "Z"), end |-> TS(pe, "Z")],
           [resource |-> "r2", start |-> TS(ps, "+00:00"), end |-> TS(pe, "+00:00")] }

RawResponses(ps, pe) ==
    UNION { [1..n -> RawSlotPool(ps, pe)] : n \in 0..MaxRawSlots }

\* A resource id the platform may hold that contains the separator of slot ids
PipedResource == "r3|x"

\* text.split("|") of a resource id: a string is modelled by the list of its
\* pieces between "|" characters, and so is a slot id.
SplitPipe(text) == IF text = PipedResource THEN <<"r3", "x">> ELSE <<text>>

\* f"{resource_id}|{start}|{end}", as the list of its pieces
FormatSlotId(resource_id, start, end) == SplitPipe(resource_id) \o <<start, end>>

NormalSlot(ts) ==
    [slot_id |-> FormatSlotId(IF ts.resource = "" THEN "unknown" ELSE ts.resource,
                              ts.start, ts.end),
     start |-> ts.start, end |-> ts.end, resource_id |-> ts.resource]

\* slots.sort(key=parsed start): stable
InsertByStart(s, x) ==
    LET n == Cardinality({i \in 1..Len(s) :
                 _parse_iso_datetime(s[i].start) <= _parse_iso_datetime(x.start)})
    IN  SubSeq(s, 1, n) \o <<x>> \o SubSeq(s, n + 1, Len(s))

RECURSIVE SortByStart(_)
SortByStart(s) ==
    IF s = <<>> THEN <<>>
    ELSE InsertByStart(SortByStart(SubSeq(s, 1, Len(s) - 1)), s[Len(s)])

\* search_field_service_availability._normalize_time_slots
_normalize_time_slots(raw, only) ==
    LET Keep(ts) == only = "none" \/ (ts.resource # "" /\ ts.resource = only)
        kept == SelectSeq(raw, Keep)
    IN  SortByStart([i \in 1..Len(kept) |-> NormalSlot(kept[i])])

\* search_field_service_availability with a requirement id: slots of the
\* requirement-based actions, or an error result with no slot.
search_requirement_availability(raw, only) ==
    LET slots == _normalize_time_slots(raw, only)
    IN  [status |-> IF slots # <<>> THEN "ok" ELSE "error", slots |-> slots]

Min(S) == CHOOSE x \in S : \A y \in S : x <= y

NoSlot == <<>>

\* book_requirement lines 477-504 (and 523-550 for the generic preview):
\* the first concrete slot with exactly the target strings, else the first
\* concrete slot.
choose_slot(slots, target_start, target_end) ==
    LET concrete == {i \in 1..Len(slots) : slots[i].slot_id[1] # "unknown"}
        exact == {i \in concrete : /\ slots[i].slot_id[2] = target_start
                                   /\ slots[i].slot_id[3] = target_end}
    IN  IF exact # {} THEN slots[Min(exact)].slot_id
        ELSE IF concrete # {} THEN slots[Min(concrete)].slot_id
        ELSE NoSlot

\* --------------------------------------------------- the chain of one request
\* The vendor records and the locals of the call while its chain is built.
\* The steps from the Case to the Booking touch only records of this call, so
\* they are taken in one step; the platform's part (answers, the auto-created
\* requirement) is chosen inside.
Context(p) ==
    [l |-> proc[p], cases |-> cases, workOrders |-> workOrders,
     requirements |-> requirements, bookings |-> bookings, writeLog |-> writeLog]

Finish(p, c) ==
    /\ proc' = [proc EXCEPT ![p] = c.l]
    /\ cases' = c.cases
    /\ workOrders' = c.workOrders
    /\ requirements' = c.requirements
    /\ bookings' = c.bookings
    /\ writeLog' = c.writeLog

Raised(c, msg) ==
    [c EXCEPT !.l = Done(c.l, ToolCaught("schedule_customer_request", msg))]

Failed(c, msg) == [c EXCEPT !.l = Done(c.l, ChainResult("error", msg, c.l))]

Logged(c, method, entity) ==
    [c EXCEPT !.writeLog = c.writeLog \cup {Write(c.l, method, entity)}]

\* Lines 678-686: create_case_for_contact -> create_record("incidents").
create_case_for_contact(c, outcome) ==
    LET c1 == Logged(c, "POST", "incidents") IN
    IF outcome = "ok"
    THEN [c1 EXCEPT !.cases = c.cases \cup {c.l.call}, !.l.case = c.l.call]
    ELSE Raised(c1, "create_case_failed")

\* Line 688: create_boiler_repair_work_order -> create_record("msdyn_workorders").
create_work_order(c, outcome) ==
    LET c1 == Logged(c, "POST", "msdyn_workorders") IN
    IF outcome = "ok"
    THEN [c1 EXCEPT !.workOrders = c.workOrders \cup {c.l.call}, !.l.wo = c.l.call]
    ELSE Raised(c1, "create_work_order_failed")

\* The requirement wait raising at the deadline instead of returning an error.
_get_or_wait_for_requirement_id_for_work_order_raising(c, polled) ==
    LET c1 == IF polled = "late" THEN c
              ELSE [c EXCEPT !.requirements = c.requirements \cup {c.l.wo}]
    IN  IF polled = "found"
        THEN [c1 EXCEPT !.l.req = c.l.wo]
        ELSE Raised(c1, "no_requirement")

\* Lines 690-701 with wait_for_work_order_resource_requirements: the platform
\* creates the requirement (numbered as its work order) in time and the poll
\* sees it ("found"), creates it in time while every poll's query fails and
\* reads as empty ("unseen"), or has not created it at the deadline ("late").
PollOutcomes == {"found", "unseen", "late"}

_get_or_wait_for_requirement_id_for_work_order(c, polled) ==
    LET c1 == IF polled = "late" THEN c
              ELSE [c EXCEPT !.requirements = c.requirements \cup {c.l.wo}]
    IN  IF polled = "found"
        THEN [c1 EXCEPT !.l.req = c.l.wo]
        ELSE Failed(c1, "no_requirement")

\* Lines 703-719: update_record("msdyn_resourcerequirements", ...)
update_requirement(c, outcome) ==
    LET c1 == Logged(c, "PATCH", "msdyn_resourcerequirements") IN
    IF outcome = "ok" THEN c1 ELSE Raised(c1, "update_requirement_failed")

\* dataverse.create_booking_for_requirement inside book_requirement's try,
\* then schedule_customer_request lines 768-789.
create_booking_for_requirement(c, slot_id, outcome) ==
    LET c1 == Logged(c, "POST", "bookableresourcebookings") IN
    IF outcome = "ok"
    THEN [c1 EXCEPT !.bookings = c.bookings \cup
                       {[id |-> c.l.call, resource |-> slot_id[1],
                         start |-> _parse_iso_datetime(slot_id[2]),
                         end |-> _parse_iso_datetime(slot_id[3]),
                         key |-> c.l.key, live |-> TRUE]},
                    !.l.booking = c.l.call, !.l.pc = "confirm"]
    ELSE Failed(c1, "booking_failed")

\* The resource every search is narrowed to (only_bookable_resource_id).
OnlyResource == settings.demo_res

CreateBooking(p, c, slot_id) ==
    \E outcome \in Outcomes : Finish(p, create_booking_for_requirement(c, slot_id, outcome))

\* CustomerSelfServiceSchedulingService.book_requirement
book_requirement(p, c) ==
    LET target_start == _iso(c.l.ps)
        target_end == _iso(c.l.pe)
    IN
    IF c.l.pe - c.l.ps <= 0
    THEN Finish(p, Failed(c, "invalid_booking_window"))
    ELSE IF settings.demo_fast /\ settings.demo_res # "none"
    THEN CreateBooking(p, c, <<settings.demo_res, target_start, target_end>>)
    ELSE \E raw \in RawResponses(c.l.ps, c.l.pe) :
           LET availability == search_requirement_availability(raw, OnlyResource)
               chosen == choose_slot(availability.slots, target_start, target_end)
           IN  IF chosen # NoSlot
               THEN CreateBooking(p, c, chosen)
               ELSE \/ \E gen \in RawResponses(c.l.ps, c.l.pe) :
                         LET preview == _normalize_time_slots(gen, OnlyResource)
                             chosen2 == choose_slot(preview, target_start, target_end)
                         IN  IF chosen2 # NoSlot
                             THEN CreateBooking(p, c, chosen2)
                             ELSE Finish(p, Failed(c, "no_concrete_slot"))
                    \/ Finish(p, Failed(c, "no_concrete_slot"))

\* Lines 721-759: outside demo-fast, for a window wider than the appointment,
\* the requested time is checked against availability (errors are swallowed).
ValidateRequirement(p, c) ==
    IF (~settings.demo_fast) /\ (c.l.we - c.l.ws) > c.l.dur + 5
    THEN \/ \E raw \in RawResponses(c.l.ps, c.l.pe) :
               LET availability == search_requirement_availability(raw, OnlyResource)
                   matches == \E i \in 1..Len(availability.slots) :
                       /\ _parse_iso_datetime(availability.slots[i].start) <= c.l.ps
                       /\ _parse_iso_datetime(availability.slots[i].end) >= c.l.pe
               IN  IF matches THEN Finish(p, [c EXCEPT !.l.pc = "book"])
                   ELSE Finish(p, Failed(c, "not_available"))
         \/ Finish(p, [c EXCEPT !.l.pc = "book"])
    ELSE Finish(p, [c EXCEPT !.l.pc = "book"])

UpdateThenValidate(p, c) ==
    \E outcome \in Outcomes :
       LET c1 == update_requirement(c, outcome) IN
       IF c1.l.pc = "done" THEN Finish(p, c1) ELSE ValidateRequirement(p, c1)

PollThenUpdate(p, c) ==
    \E polled \in PollOutcomes :
       LET c1 == _get_or_wait_for_requirement_id_for_work_order(c, polled) IN
       IF c1.l.pc = "done" THEN Finish(p, c1) ELSE UpdateThenValidate(p, c1)

WorkOrderThenPoll(p, c) ==
    \E outcome \in Outcomes :
       LET c1 == create_work_order(c, outcome) IN
       IF c1.l.pc = "done" THEN Finish(p, c1) ELSE PollThenUpdate(p, c1)

\* schedule_customer_request lines 678-759: Case, WorkOrder, requirement and
\* its update, each step ending the call when it fails.
CreateChain(p) ==
    /\ proc[p].pc = "chain"
    /\ \E outcome \in Outcomes :
          LET c1 == create_case_for_contact(Context(p), outcome) IN
          IF c1.l.pc = "done" THEN Finish(p, c1) ELSE WorkOrderThenPoll(p, c1)
    /\ UNCHANGED <<settings, store, calls>>
    /\ UNCHANGED searchVars
    /\ UNCHANGED clientVars

\* schedule_customer_request lines 761-789: book_requirement and its result.
BookRequirement(p) ==
    /\ proc[p].pc = "book"
    /\ book_requirement(p, Context(p))
    /\ UNCHANGED <<settings, store, calls>>
    /\ UNCHANGED searchVars
    /\ UNCHANGED clientVars

\* The platform creates a late requirement for a work order that has none.
VendorAutoCreateRequirement ==
    /\ \E w \in workOrders \ requirements :
          requirements' = requirements \cup {w}
    /\ UNCHANGED <<settings, cases, workOrders, bookings, store, calls, proc,
                   writeLog>>
    /\ UNCHANGED searchVars
    /\ UNCHANGED clientVars

\* Persisting the chain before the confirming re-fetch is looked at.
confirm_and_persist_eagerly(l, st, confirmed) ==
    IF confirmed
    THEN [l |-> Done(l, ChainResult("ok", "", l)), store |-> IdemPut(st, l.key, Chain(l))]
    ELSE [l |-> Done(l, ChainResult("error", "unconfirmed", l)),
          store |-> IdemPut(st, l.key, Chain(l))]

\* Lines 791-809: re-fetch the booking, then persist the chain.
confirm_and_persist(l, st, confirmed) ==
    IF confirmed
    THEN [l |-> Done(l, ChainResult("ok", "", l)), store |-> IdemPut(st, l.key, Chain(l))]
    ELSE [l |-> Done(l, ChainResult("error", "unconfirmed", l)), store |-> st]

ConfirmBooking(p) ==
    /\ proc[p].pc = "confirm"
    /\ \E outcome \in Outcomes :
          LET r == confirm_and_persist(proc[p], store,
                                       GetBookingSucceeds(proc[p].booking, outcome))
          IN  /\ proc' = [proc EXCEPT ![p] = r.l]
              /\ store' = r.store
    /\ UNCHANGED <<settings, cases, workOrders, requirements, bookings, calls,
                   writeLog>>
    /\ UNCHANGED searchVars
    /\ UNCHANGED clientVars

\* Manual cleanup on the platform: a booking is removed from the vendor store.
VendorDeleteBooking ==
    /\ \E b \in bookings :
          /\ b.live
          /\ bookings' = (bookings \ {b}) \cup {[b EXCEPT !.live = FALSE]}
    /\ UNCHANGED <<settings, cases, workOrders, requirements, store, calls, proc,
                   writeLog>>
    /\ UNCHANGED searchVars
    /\ UNCHANGED clientVars

\* ------------------------------------------------------------- other tools
\* server.update_contact / update_case / update_work_order: gate, then PATCH.
UpdateRecordTool(p) ==
    /\ proc[p].pc = "idle"
    /\ p = calls + 1
    /\ \E tool \in UpdateTools, outcome \in Outcomes :
          LET l == [Idle EXCEPT !.call = p] IN
          IF ~settings.allow_writes
          THEN /\ proc' = [proc EXCEPT ![p] = Done(l, Blocked(tool))]
               /\ writeLog' = writeLog
          ELSE /\ writeLog' = writeLog \cup {Write(l, "PATCH", UpdateEntity(tool))}
               /\ proc' = [proc EXCEPT ![p] =
                             Done(l, IF outcome = "ok"
                                     THEN Result("ok", "", 0, 0, 0, 0, 0, 0)
                                     ELSE ToolCaught("update_record", "update_failed"))]
    /\ calls' = calls + 1
    /\ UNCHANGED <<settings, cases, workOrders, requirements, bookings, store>>
    /\ UNCHANGED searchVars
    /\ UNCHANGED clientVars

\* dataverse.list_resource_requirements_for_work_order
ListRequirements(wo) == IF wo \in requirements THEN {wo} ELSE {}

\* server.get_availability_for_work_order (a read tool): find the work order's
\* requirement, PATCH its window and duration, then search availability.
get_availability_for_work_order(p) ==
    /\ proc[p].pc = "idle"
    /\ p = calls + 1
    /\ \E wo \in workOrders, outcome \in Outcomes, found \in {"ok", "error"} :
          LET l == [Idle EXCEPT !.call = p, !.wo = wo]
          IN  IF ListRequirements(wo) = {}
              THEN /\ proc' = [proc EXCEPT ![p] =
                                 Done(l, Result("error", "no_requirement", 0, wo, 0, 0, 0, 0))]
                   /\ writeLog' = writeLog
              ELSE /\ writeLog' = writeLog \cup
                          {Write(l, "PATCH", "msdyn_resourcerequirements")}
                   /\ proc' = [proc EXCEPT ![p] =
                                 Done(l, IF outcome = "ok"
                                         THEN Result(found, "", 0, wo, wo, 0, 0, 0)
                                         ELSE ToolCaught("update_record", "availability_failed"))]
    /\ calls' = calls + 1
    /\ UNCHANGED <<settings, cases, workOrders, requirements, bookings, store>>
    /\ UNCHANGED searchVars
    /\ UNCHANGED clientVars

\* ---------------------------------------------------- slot post-processor
\* Instants of an availability search are seconds.  Day 0 is a winter day;
\* British Summer Time begins on day 1 at 01:00 UTC.
DstStartUtc == 24 * 3600 + 3600

\* datetime.astimezone(ZoneInfo("Europe/London")): the wall clock of an instant
ToLocal(t) == IF t >= DstStartUtc THEN t + 3600 ELSE t

\* datetime.astimezone(timezone.utc) of a Europe/London wall-clock reading
FromLocal(w) == IF w >= DstStartUtc + 3600 THEN w - 3600 ELSE w

\* A timestamp string with seconds: wall-clock minute, suffix, seconds and
\* the way the fraction of a second is written.
TSS(c, z, s, f) == [clock |-> c, zone |-> z, sec |-> s, frac |-> f]

\* dataverse._parse_iso_datetime at the resolution of a second
ParseSeconds(s) == _parse_iso_datetime(s) * 60 + s.sec

\* dataverse._iso at the resolution of a second
IsoSeconds(t) == [clock |-> t \div 60, zone |-> "Z", sec |-> t % 60, frac |-> ""]

lead_minutes == 30

business_open_h == 8

business_close_h == 18

\* search_availability._ceil_to_half_hour_local
_ceil_to_half_hour_local(dt_utc) ==
    LET local == ToLocal(dt_utc)
        minute == (local \div 60) % 60
        rounded == IF minute = 0 \/ minute = 30 THEN local - (local % 60)
                   ELSE IF minute < 30 THEN (local - (local % 3600)) + 30 * 60
                   ELSE (local - (local % 3600)) + 3600
    IN  FromLocal(rounded)

\* local.replace(hour=h, minute=0, second=0, microsecond=0), as a wall clock
AtHourOfDay(w, h) == (w - (w % (24 * 3600))) + h * 3600

NoWindow == [start |-> 0 - 1, end |-> 0 - 1, resource |-> ""]

\* A resource id read as everything before the last two pieces of the slot id
resource_of_slot_id_from_the_right(slot_id) ==
    IF Len(slot_id) = 4 THEN PipedResource
    ELSE IF Len(slot_id) = 3 /\ slot_id[1] # "" THEN slot_id[1]
    ELSE "unknown"

\* parts = raw_slot_id.split("|", 2); parts[0].strip() when there are three
\* parts and the first is not blank, otherwise "unknown"
resource_of_slot_id(slot_id) ==
    IF Len(slot_id) >= 3 /\ slot_id[1] # "" THEN slot_id[1] ELSE "unknown"

\* A loop body that rounds the start but applies neither the opening hour
\* nor the closing hour.
exact_window_unclipped(slot, lead_time_utc, duration) ==
    IF ~(IsIsoString(slot.start) /\ IsIsoString(slot.end)) THEN NoWindow
    ELSE
      LET start_raw == ParseSeconds(slot.start)
          end_raw == ParseSeconds(slot.end)
          clamped == IF start_raw < lead_time_utc THEN lead_time_utc ELSE start_raw
          start_dt == _ceil_to_half_hour_local(clamped)
      IN  IF end_raw <= start_raw THEN NoWindow
          ELSE IF end_raw < start_dt + duration THEN NoWindow
          ELSE [start |-> start_dt, end |-> end_raw, resource |-> resource_of_slot_id(slot.slot_id)]

\* Lines 316-365 for one raw slot: the window it contributes, or none.
exact_window(slot, lead_time_utc, duration) ==
    IF ~(IsIsoString(slot.start) /\ IsIsoString(slot.end)) THEN NoWindow
    ELSE
      LET start_raw == ParseSeconds(slot.start)
          end_raw == ParseSeconds(slot.end)
          clamped == IF start_raw < lead_time_utc THEN lead_time_utc ELSE start_raw
          rounded == _ceil_to_half_hour_local(clamped)
          open_local == AtHourOfDay(ToLocal(rounded), business_open_h)
          early == ToLocal(rounded) < open_local
          start_dt == IF early THEN _ceil_to_half_hour_local(FromLocal(open_local))
                      ELSE rounded
          close_local == AtHourOfDay(ToLocal(start_dt), business_close_h)
          closing == FromLocal(close_local)
          end_dt == IF end_raw < closing THEN end_raw ELSE closing
      IN  IF end_raw <= start_raw THEN NoWindow
          ELSE IF end_dt < start_dt + duration THEN NoWindow
          ELSE [start |-> start_dt, end |-> end_dt, resource |-> resource_of_slot_id(slot.slot_id)]

\* A dict that keeps every assignment as an entry of its own
DictPut_appending(d, key, value) == Append(d, [key |-> key, value |-> value])

\* dict[key] = value on an insertion-ordered dict held as a sequence of entries
DictPut(d, key, value) ==
    IF \E i \in 1..Len(d) : d[i].key = key
    THEN [i \in 1..Len(d) |-> IF d[i].key = key THEN [key |-> key, value |-> value]
                              ELSE d[i]]
    ELSE Append(d, [key |-> key, value |-> value])

\* Lines 315-365: exact_windows, keyed by "<start_iso>|<end_iso>"
RECURSIVE exact_windows(_, _, _)
exact_windows(slots, lead_time_utc, duration) ==
    IF slots = <<>> THEN <<>>
    ELSE LET before == exact_windows(SubSeq(slots, 1, Len(slots) - 1),
                                     lead_time_utc, duration)
             w == exact_window(slots[Len(slots)], lead_time_utc, duration)
         IN  IF w = NoWindow THEN before
             ELSE DictPut(before, <<IsoSeconds(w.start), IsoSeconds(w.end)>>, w)

\* A collapse that keeps the window seen first for a start
RECURSIVE min_end_by_start_keeping_first(_, _)
min_end_by_start_keeping_first(windows, duration) ==
    IF windows = <<>> THEN <<>>
    ELSE LET before == min_end_by_start_keeping_first(
                           SubSeq(windows, 1, Len(windows) - 1), duration)
             w == windows[Len(windows)].value
             start_iso == IsoSeconds(w.start)
         IN  IF w.end < w.start + duration THEN before
             ELSE IF \E i \in 1..Len(before) : before[i].key = start_iso
             THEN before
             ELSE DictPut(before, start_iso, [end |-> w.end, resource |-> w.resource])

\* Lines 367-376: min_end_by_start, keyed by the start's ISO string
RECURSIVE min_end_by_start(_, _)
min_end_by_start(windows, duration) ==
    IF windows = <<>> THEN <<>>
    ELSE LET before == min_end_by_start(SubSeq(windows, 1, Len(windows) - 1), duration)
             w == windows[Len(windows)].value
             start_iso == IsoSeconds(w.start)
             cur == {i \in 1..Len(before) : before[i].key = start_iso}
         IN  IF w.end < w.start + duration THEN before
             ELSE IF cur = {} \/ (\E i \in cur : w.end < before[i].value.end)
             THEN DictPut(before, start_iso, [end |-> w.end, resource |-> w.resource])
             ELSE before

\* Order of two ISO strings of the uniform "...THH:MM:SSZ" form
IsoLess(a, b) == a.clock < b.clock \/ (a.clock = b.clock /\ a.sec < b.sec)

\* Items in insertion order
SortedItems_unsorted(d) == d

\* sorted(d.items(), key=lambda kv: kv[0]): stable
InsertByKey(s, x) ==
    LET n == Cardinality({i \in 1..Len(s) : ~IsoLess(x.key, s[i].key)})
    IN  SubSeq(s, 1, n) \o <<x>> \o SubSeq(s, n + 1, Len(s))

RECURSIVE SortedItems(_)
SortedItems(d) ==
    IF d = <<>> THEN <<>>
    ELSE InsertByKey(SortedItems(SubSeq(d, 1, Len(d) - 1)), d[Len(d)])

\* Lines 378-397: the numbered slots, each exactly one duration long
numbered_slots(min_end, duration, max_slots) ==
    LET Fits(e) == ParseSeconds(e.key) + duration <= e.value.end
        fit == SelectSeq(SortedItems(min_end), Fits)
        taken == IF 0 < max_slots /\ max_slots < Len(fit)
                 THEN SubSeq(fit, 1, max_slots) ELSE fit
    IN  [i \in 1..Len(taken) |->
            LET start_dt == ParseSeconds(taken[i].key)
            IN  [slot_number |-> i,
                 slot_id |-> FormatSlotId(taken[i].value.resource,
                                          IsoSeconds(start_dt),
                                          IsoSeconds(start_dt + duration)),
                 start |-> IsoSeconds(start_dt),
                 end |-> IsoSeconds(start_dt + duration)]]

\* search_availability lines 290-397 on the slots of the vendor's result
canonical_slots(raw_slots, now_utc, duration_minutes, max_slots) ==
    LET lead_time_utc == now_utc + lead_minutes * 60
        duration == duration_minutes * 60
    IN  numbered_slots(
            min_end_by_start(exact_windows(raw_slots, lead_time_utc, duration),
                             duration),
            duration, max_slots)

\* ------------------------------------------------- availability search
\* Minute h:m of day 0
Hm(h, m) == h * 60 + m

\* Free time slots as the platform may write them: off the half hour, the
\* same instant in two spellings, before opening, up to closing, across
\* midnight into the first summer-time day, with seconds, unparsable, and
\* ending before it starts; one resource id holds a "|".
SearchSlotPool ==
    { [resource |-> "r1", start |-> TSS(Hm(9, 10), "Z", 0, ""),
                          end |-> TSS(Hm(12, 0), "Z", 0, "")],
      [resource |-> "r2", start |-> TSS(Hm(9, 30), "+00:00", 0, ".000"),
                          end |-> TSS(Hm(11, 0), "+00:00", 0, ".000")],
      [resource |-> "r1", start |-> TSS(Hm(9, 30), "Z", 0, ""),
                          end |-> TSS(Hm(11, 0), "Z", 0, "")],
      [resource |-> "", start |-> TSS(Hm(6, 0), "Z", 0, ""),
                        end |-> TSS(Hm(10, 30), "Z", 0, "")],
      [resource |-> PipedResource, start |-> TSS(Hm(16, 50), "Z", 0, ""),
                                   end |-> TSS(Hm(23, 0), "Z", 0, "")],
      [resource |-> "r2", start |-> TSS(Hm(23, 45), "Z", 0, ""),
                          end |-> TSS(Hm(36, 0), "Z", 0, "")],
      [resource |-> "r1", start |-> TSS(Hm(10, 0), "Z", 30, ""),
                          end |-> TSS(Hm(12, 0), "Z", 0, "")],
      [resource |-> "r1", start |-> TSS(Hm(9, 0), "bad", 0, ""),
                          end |-> TSS(Hm(11, 0), "Z", 0, "")],
      [resource |-> "r2", start |-> TSS(Hm(11, 30), "+01:00", 0, ""),
                          end |-> TSS(Hm(10, 0), "Z", 0, "")] }

MaxFreeSlots == 3

FreeSlotLists == UNION { [1..n -> SearchSlotPool] : n \in 0..MaxFreeSlots }

\* slots.sort(key=parsed start) at the resolution of a second: stable
InsertByInstant(s, x) ==
    LET n == Cardinality({i \in 1..Len(s) :
                 ParseSeconds(s[i].start) <= ParseSeconds(x.start)})
    IN  SubSeq(s, 1, n) \o <<x>> \o SubSeq(s, n + 1, Len(s))

RECURSIVE SortByInstant(_)
SortByInstant(s) ==
    IF s = <<>> THEN <<>>
    ELSE InsertByInstant(SortByInstant(SubSeq(s, 1, Len(s) - 1)), s[Len(s)])

\* search_field_service_availability._normalize_time_slots with the sort
\* that an unparsable start abandons and the max_time_slots cut
_normalize_time_slots_capped(raw, only, max_time_slots) ==
    LET Keep(ts) == only = "none" \/ (ts.resource # "" /\ ts.resource = only)
        kept == SelectSeq(raw, Keep)
        slots == [i \in 1..Len(kept) |-> NormalSlot(kept[i])]
        sorted == IF \A i \in 1..Len(slots) : IsIsoString(slots[i].start)
                  THEN SortByInstant(slots) ELSE slots
    IN  IF max_time_slots > 0 /\ Len(sorted) > max_time_slots
        THEN SubSeq(sorted, 1, max_time_slots) ELSE sorted

LegacyAction == "msdyn_SearchResourceAvailability"

V2Action == "msdyn_SearchResourceAvailabilityV2"

GroupAction == "msdyn_SearchResourceAvailabilityForRequirementGroup"

UfxAction == "msdyn_FpsAction/403"

\* How the platform answers each unbound action: whether
\* a schedule board setting exists, and per action whether it is exposed,
\* fails, answers without time slots, or answers with the free slots.
PlatformSpace ==
    [sb : BOOLEAN,
     legacy : {"absent", "empty", "slots"},
     v2 : {"absent", "slots"},
     group : {"absent", "slots"},
     ufx : {"slots", "error", "raise"}]

\* A platform of which no availability is asked
QuietPlatform ==
    [sb |-> FALSE, legacy |-> "absent", v2 |-> "absent", group |-> "absent",
     ufx |-> "error"]

\* probe_unbound_action_exists
probe_unbound_action_exists(behaviour) == behaviour # "absent"

\* _try_requirement_based_action / execute_unbound_action + normalizer
action_slots(behaviour, free, only, max_time_slots) ==
    IF behaviour = "slots"
    THEN _normalize_time_slots_capped(free, only, max_time_slots)
    ELSE <<>>

Probe(action) == [op |-> "probe", action |-> action]

Invoke(action) == [op |-> "invoke", action |-> action]

SearchResult(status, action, slots, attempted, trace, raised) ==
    [status |-> status, action |-> action, slots |-> slots,
     attempted_actions |-> attempted, trace |-> trace, raised |-> raised]

\* search_field_service_availability without a requirement id (lines
\* 1531-1900): the requirement-group action, then the schedule board UFX
\* pipeline, whose unguarded requests may raise.
generic_search(platform, free, only, max_time_slots) ==
    LET group_exists == probe_unbound_action_exists(platform.group)
        slots_b == IF group_exists
                   THEN action_slots(platform.group, free, only, max_time_slots)
                   ELSE <<>>
        trace_b == <<Probe(GroupAction)>> \o
                   (IF group_exists THEN <<Invoke(GroupAction)>> ELSE <<>>)
        trace_u == trace_b \o <<Invoke(UfxAction)>>
    IN  IF slots_b # <<>>
        THEN SearchResult("ok", GroupAction, slots_b, <<>>, trace_b, FALSE)
        ELSE IF platform.ufx = "raise"
        THEN SearchResult("error", "", <<>>, <<>>, trace_u, TRUE)
        ELSE IF platform.ufx = "error"
        THEN SearchResult("error", UfxAction, <<>>, <<>>, trace_u, FALSE)
        ELSE SearchResult("ok", UfxAction,
                          action_slots(platform.ufx, free, only, max_time_slots),
                          <<>>, trace_u, FALSE)

\* A normalizer that, finding no requirement-based slot, goes on to the
\* requirement-group action and the UFX pipeline.
requirement_based_search_falling_through(platform, free, only, max_time_slots) ==
    LET legacy_slots == IF platform.sb
                        THEN action_slots(platform.legacy, free, only, max_time_slots)
                        ELSE <<>>
        v2_slots == IF platform.sb
                    THEN action_slots(platform.v2, free, only, max_time_slots)
                    ELSE <<>>
    IN  IF legacy_slots # <<>>
        THEN SearchResult("ok", LegacyAction, legacy_slots, <<LegacyAction>>,
                          <<Probe(LegacyAction), Invoke(LegacyAction)>>, FALSE)
        ELSE IF v2_slots # <<>>
        THEN SearchResult("ok", V2Action, v2_slots, <<V2Action>>,
                          <<Probe(LegacyAction), Probe(V2Action), Invoke(V2Action)>>,
                          FALSE)
        ELSE generic_search(platform, free, only, max_time_slots)

\* A normalizer that prefers V2 and turns to the legacy action afterwards.
requirement_based_search_v2_first(platform, free, only, max_time_slots) ==
    IF ~platform.sb
    THEN SearchResult("error", "", <<>>, <<>>, <<>>, FALSE)
    ELSE
      LET v2_exists == probe_unbound_action_exists(platform.v2)
          slots_v2 == action_slots(platform.v2, free, only, max_time_slots)
          attempted1 == IF v2_exists THEN <<V2Action>> ELSE <<>>
          trace1 == <<Probe(V2Action)>> \o
                    (IF v2_exists THEN <<Invoke(V2Action)>> ELSE <<>>)
          legacy_exists == probe_unbound_action_exists(platform.legacy)
          slots_v1 == action_slots(platform.legacy, free, only, max_time_slots)
          attempted2 == attempted1 \o (IF legacy_exists THEN <<LegacyAction>> ELSE <<>>)
          trace2 == trace1 \o <<Probe(LegacyAction)>> \o
                    (IF legacy_exists THEN <<Invoke(LegacyAction)>> ELSE <<>>)
      IN  IF slots_v2 # <<>>
          THEN SearchResult("ok", V2Action, slots_v2, attempted1, trace1, FALSE)
          ELSE IF slots_v1 # <<>>
          THEN SearchResult("ok", LegacyAction, slots_v1, attempted2, trace2, FALSE)
          ELSE SearchResult("error", "", <<>>, attempted2, trace2, FALSE)

\* search_field_service_availability, requirement branch (lines 1461-1529):
\* the legacy action, then V2, and an error result when neither has a slot.
requirement_based_search(platform, free, only, max_time_slots) ==
    IF ~platform.sb
    THEN SearchResult("error", "", <<>>, <<>>, <<>>, FALSE)
    ELSE
      LET legacy_exists == probe_unbound_action_exists(platform.legacy)
          slots_v1 == IF legacy_exists
                      THEN action_slots(platform.legacy, free, only, max_time_slots)
                      ELSE <<>>
          attempted1 == IF legacy_exists THEN <<LegacyAction>> ELSE <<>>
          trace1 == <<Probe(LegacyAction)>> \o
                    (IF legacy_exists THEN <<Invoke(LegacyAction)>> ELSE <<>>)
          v2_exists == probe_unbound_action_exists(platform.v2)
          slots_v2 == IF v2_exists
                      THEN action_slots(platform.v2, free, only, max_time_slots)
                      ELSE <<>>
          attempted2 == attempted1 \o (IF v2_exists THEN <<V2Action>> ELSE <<>>)
          trace2 == trace1 \o <<Probe(V2Action)>> \o
                    (IF v2_exists THEN <<Invoke(V2Action)>> ELSE <<>>)
          last_action == IF v2_exists THEN V2Action
                         ELSE IF legacy_exists THEN LegacyAction ELSE ""
      IN  IF slots_v1 # <<>>
          THEN SearchResult("ok", LegacyAction, slots_v1, attempted1, trace1, FALSE)
          ELSE IF slots_v2 # <<>>
          THEN SearchResult("ok", V2Action, slots_v2, attempted2, trace2, FALSE)
          ELSE SearchResult("error", last_action, <<>>, attempted2, trace2, FALSE)

\* DataverseClient.search_field_service_availability
search_field_service_availability(requirement_id, platform, free, only, max_time_slots) ==
    IF requirement_id # ""
    THEN requirement_based_search(platform, free, only, max_time_slots)
    ELSE generic_search(platform, free, only, max_time_slots)

\* dataverse.compute_day_window_utc for "today", "tomorrow" and
\* "today_or_tomorrow"
compute_day_window_utc(which, now_utc) ==
    LET now_local == ToLocal(now_utc)
        base == IF which = "tomorrow" THEN now_local + 24 * 3600 ELSE now_local
        start_local == AtHourOfDay(base, 8)
        end_local == AtHourOfDay(base, 18)
        start == IF which = "today" /\ now_local > start_local
                 THEN now_local ELSE start_local
        today_start == AtHourOfDay(now_local, 8)
    IN  IF which = "today_or_tomorrow"
        THEN <<FromLocal(IF now_local > today_start THEN now_local ELSE today_start),
               FromLocal(AtHourOfDay(now_local + 24 * 3600, 18))>>
        ELSE <<FromLocal(start), FromLocal(end_local)>>

Whens == {"today", "tomorrow"}

\* f"fallback:{generic.get('action')}"
FallbackAction(action) ==
    IF action = GroupAction
    THEN "fallback:msdyn_SearchResourceAvailabilityForRequirementGroup"
    ELSE IF action = UfxAction THEN "fallback:msdyn_FpsAction/403"
    ELSE "fallback:"

Report(key, r) == [key |-> key, status |-> r.status, action |-> r.action]

ttl_seconds == 180

\* self._availability_cache[cache_key] = (expires_ts, dict(out))
CachePut(cch, key, entry) ==
    [k \in (DOMAIN cch) \cup {key} |-> IF k = key THEN entry ELSE cch[k]]

\* self._availability_cache.pop(cache_key, None)
CachePop(cch, key) == [k \in (DOMAIN cch) \ {key} |-> cch[k]]

NoOut ==
    [status |-> "none", action |-> "", count |-> 0, slots |-> <<>>,
     details |-> {}, attempted_actions |-> <<>>]

NoVendor == SearchResult("none", "", <<>>, <<>>, <<>>, FALSE)

\* The dict search_availability returns: the vendor's answer, or the fallback
\* answer built from the generic search, around the post-processed slots.
search_out(first, generic, fallback, slots) ==
    [status |-> IF fallback THEN "ok" ELSE first.status,
     action |-> IF fallback THEN FallbackAction(generic.action) ELSE first.action,
     count |-> Len(slots),
     slots |-> slots,
     details |-> IF fallback
                 THEN {Report("requirement_based", first), Report("generic", generic)}
                 ELSE {},
     attempted_actions |-> IF fallback THEN <<>> ELSE first.attempted_actions]

\* The end of search_availability: in demo_fast the result is stored under the
\* key for ttl_seconds, and it is returned.
search_store(cfg, cch, popped, cache_key, now_utc, first, trace, raw_slots, out) ==
    [out |-> out,
     cache |-> IF cfg.demo_fast
               THEN CachePut(popped, cache_key,
                             [expires |-> now_utc + ttl_seconds, value |-> out])
               ELSE cch,
     trace |-> trace, raw |-> raw_slots, hit |-> FALSE, raised |-> FALSE,
     vendor |-> first]

\* search_availability after the cache lookup missed: first is the vendor's
\* answer to the search, generic its answer to the generic search the fallback
\* makes (asked for only when the first answer has no slots).
search_vendor(cfg, cch, popped, cache_key, now_utc, requirement_id, duration_minutes, max_slots, first, generic) ==
    LET retry == ~cfg.demo_fast /\ requirement_id # "" /\ first.slots = <<>>
        fallback == retry /\ ~generic.raised /\ generic.slots # <<>>
        raw_slots == IF fallback THEN generic.slots ELSE first.slots
        trace == first.trace \o (IF retry THEN generic.trace ELSE <<>>)
    IN  IF first.raised
        THEN [out |-> NoOut, cache |-> popped, trace |-> trace,
              raw |-> <<>>, hit |-> FALSE, raised |-> TRUE, vendor |-> first]
        ELSE search_store(cfg, cch, popped, cache_key, now_utc, first, trace, raw_slots,
                 search_out(first, generic, fallback,
                     canonical_slots(raw_slots, now_utc, duration_minutes, max_slots)))

\* The cache lookup of search_availability under a key: an entry that has not
\* expired is the answer, an expired one is popped.
search_cached(cfg, cch, now_utc, cache_key, requirement_id, duration_minutes, max_slots, first, generic) ==
    IF cfg.demo_fast /\ cache_key \in DOMAIN cch
    THEN IF cch[cache_key].expires > now_utc
         THEN [out |-> cch[cache_key].value, cache |-> cch, trace |-> <<>>,
               raw |-> <<>>, hit |-> TRUE, raised |-> FALSE, vendor |-> NoVendor]
         ELSE search_vendor(cfg, cch, CachePop(cch, cache_key), cache_key, now_utc,
                  requirement_id, duration_minutes, max_slots, first, generic)
    ELSE search_vendor(cfg, cch, cch, cache_key, now_utc, requirement_id,
             duration_minutes, max_slots, first, generic)

\* CustomerSelfServiceSchedulingService.search_availability: the result, the
\* cache it leaves, the vendor requests it made, the slots it post-processed,
\* whether it answered from the cache or raised, and the vendor's first answer.
search_availability(cfg, cch, now_utc, free, platform, requirement_id, window, duration_minutes, max_slots) ==
    search_cached(cfg, cch, now_utc,
        <<IF cfg.demo_fast THEN "" ELSE requirement_id, IsoSeconds(window[1]),
          IsoSeconds(window[2]), duration_minutes, max_slots>>,
        requirement_id, duration_minutes, max_slots,
        search_field_service_availability(
            IF cfg.demo_fast THEN "" ELSE requirement_id, platform, free,
            cfg.demo_res, IF cfg.demo_fast THEN max_slots ELSE max_slots * 3),
        search_field_service_availability("", platform, free, cfg.demo_res,
                                          max_slots * 3))

\* ---------------------------------------------- availability tools
MaxRequests == 2

MaxTicks == 2

MaxSlotsInputs == {1, 25}

WorkOrderRequirement == "req1"

\* A tool call that ended before the service was asked
NotSearched(cch) ==
    [out |-> NoOut, cache |-> cch, trace |-> <<>>, raw |-> <<>>,
     hit |-> FALSE, raised |-> FALSE, vendor |-> NoVendor]

NoSearch ==
    [req |-> 0, tool |-> "", requirement_id |-> "", when |-> "",
     max_slots |-> 0, duration |-> 0, at |-> 0, s |-> NotSearched(<<>>)]

Searched(tool, requirement_id, when, max_slots, duration, s) ==
    [req |-> pending, tool |-> tool, requirement_id |-> requirement_id,
     when |-> when, max_slots |-> max_slots, duration |-> duration,
     at |-> now, s |-> [s EXCEPT !.cache = <<>>]]

\* What a tool call leaves behind: the search it made and the service's cache.
record_search(tool, requirement_id, when, max_slots, duration, s) ==
    /\ lastSearch' = Searched(tool, requirement_id, when, max_slots, duration, s)
    /\ cache' = s.cache

\* server.get_boiler_repair_availability: a search without a requirement
get_boiler_repair_availability ==
    /\ pending > 0
    /\ \E when \in Whens, max_slots \in MaxSlotsInputs, dur \in Durations :
          record_search("get_boiler_repair_availability", "", when, max_slots, dur,
              search_availability(settings, cache, now, vendorSlots, vendorPlatform,
                  "", compute_day_window_utc(when, now), dur, max_slots))
    /\ pending' = pending - 1
    /\ now' = now + 1
    /\ UNCHANGED <<settings, ticks, vendorSlots, vendorPlatform, slotBookings>>
    /\ UNCHANGED orchestratorVars
    /\ UNCHANGED clientVars

\* The search get_availability_for_work_order makes once the PATCH of the
\* work order's requirement has succeeded.
work_order_search(patched, when, dur, max_slots) ==
    IF patched = "ok"
    THEN search_availability(settings, cache, now, vendorSlots, vendorPlatform,
             WorkOrderRequirement, compute_day_window_utc(when, now), dur, max_slots)
    ELSE NotSearched(cache)

\* server.get_availability_for_work_order from the PATCH of the work order's
\* requirement on: the search for that requirement.
availability_for_work_order ==
    /\ pending > 0
    /\ \E when \in Whens, max_slots \in MaxSlotsInputs, dur \in Durations,
          patched \in Outcomes :
          record_search("get_availability_for_work_order", WorkOrderRequirement,
              when, max_slots, dur, work_order_search(patched, when, dur, max_slots))
    /\ pending' = pending - 1
    /\ now' = now + 1
    /\ UNCHANGED <<settings, ticks, vendorSlots, vendorPlatform, slotBookings>>
    /\ UNCHANGED orchestratorVars
    /\ UNCHANGED clientVars

\* create_booking_for_work_order on the option with the number among the
\* options s: the option's slot id when it names a resource, otherwise the
\* first slot with a resource of a search of its own (availability).
book_slot_number(s, availability, slot_number, patched, repatched, created) ==
    LET options == s.out.slots
        numbered == {i \in 1..Len(options) : options[i].slot_number = slot_number}
        available == patched = "ok" /\ ~s.raised /\ s.out.status = "ok"
                     /\ numbered # {}
        option == options[Min(numbered)]
        concrete == option.slot_id[1] # "unknown"
        found == {i \in 1..Len(availability.slots) :
                    availability.slots[i].slot_id[1] # "unknown"}
    IN  slotBookings' =
           IF available /\ repatched = "ok" /\ (concrete \/ found # {})
              /\ created = "ok"
           THEN slotBookings \cup
                  {[req |-> pending,
                    slot_id |-> IF concrete THEN option.slot_id
                                ELSE availability.slots[Min(found)].slot_id,
                    trace |-> s.trace \o
                              (IF concrete THEN <<>> ELSE availability.trace),
                    from_cache |-> s.hit /\ concrete]}
           ELSE slotBookings

\* The step of create_booking_for_work_order_slot_number on the options s
slot_number_step(s, slot_number, when, dur, patched, repatched, created) ==
    /\ record_search("create_booking_for_work_order_slot_number",
                     WorkOrderRequirement, when, 25, dur, s)
    /\ book_slot_number(s,
           search_field_service_availability(WorkOrderRequirement, vendorPlatform,
                                             vendorSlots, "none", 25),
           slot_number, patched, repatched, created)

\* server.create_booking_for_work_order_slot_number: the options of
\* get_availability_for_work_order, the option with the number, and
\* create_booking_for_work_order on its slot id.
create_booking_for_work_order_slot_number ==
    /\ pending > 0
    /\ \E slot_number \in 1..2, when \in Whens, dur \in Durations,
          patched \in Outcomes, repatched \in Outcomes, created \in Outcomes :
          IF ~settings.allow_writes
          THEN UNCHANGED <<cache, lastSearch, slotBookings>>
          ELSE slot_number_step(work_order_search(patched, when, dur, 25),
                                slot_number, when, dur, patched, repatched, created)
    /\ pending' = pending - 1
    /\ now' = now + 1
    /\ UNCHANGED <<settings, ticks, vendorSlots, vendorPlatform>>
    /\ UNCHANGED orchestratorVars
    /\ UNCHANGED clientVars

\* Time passes between two tool calls.
Tick ==
    /\ ticks < MaxTicks
    /\ ticks' = ticks + 1
    /\ now' = now + 100
    /\ UNCHANGED <<settings, vendorSlots, vendorPlatform, pending, cache, lastSearch,
                   slotBookings>>
    /\ UNCHANGED orchestratorVars
    /\ UNCHANGED clientVars

\* ------------------------------------------------------- booking creation
\* Keys of a create payload are written without their "@odata.bind" suffix.
\* create_bookable_resource_booking.booking_keys
booking_keys ==
    <<"BookingStatus", "BookingStatusId", "bookingstatus", "bookingStatus",
      "bookingstatusid", "bookingStatusId">>

\* create_bookable_resource_booking.resource_keys
resource_keys ==
    <<"Resource", "ResourceId", "resource", "resourceId", "resourceid">>

DefaultRequirementKey == "msdyn_ResourceRequirement"

SeqRange(q) == {q[i] : i \in 1..Len(q)}

\* The booking table as a platform may have it: the navigation-property name
\* of each lookup, the lookups whose name the metadata query yields, and
\* whether an accepted create answers with the id of the record.
BookingSchemas ==
    [status : {"BookingStatus", "bookingstatus", "msdyn_BookingStatus"},
     resource : {"Resource", "resource"},
     requirement : {DefaultRequirementKey, "msdyn_resourcerequirement"},
     discovered : SUBSET {"bookingstatus", "resource", "msdyn_resourcerequirement"},
     returns_id : BOOLEAN]

\* DataverseClient.try_get_many_to_one_nav_property_for_attribute on the
\* booking table: the name, or "" for None
try_get_many_to_one_nav_property_for_attribute(schema, attribute) ==
    IF attribute \notin schema.discovered THEN ""
    ELSE IF attribute = "bookingstatus" THEN schema.status
    ELSE IF attribute = "resource" THEN schema.resource
    ELSE schema.requirement

\* DataverseClient.create_record("bookableresourcebookings", payload): the
\* platform stores a record when every lookup of the payload is bound under
\* its navigation-property name; "ok" is a record id, "no_id" the
\* RuntimeError after a 2xx without one, "http_error" the one _post raises.
create_record(schema, payload) ==
    IF /\ payload.status = schema.status
       /\ payload.resource = schema.resource
       /\ payload.requirement = schema.requirement
    THEN IF schema.returns_id THEN "ok" ELSE "no_id"
    ELSE "http_error"

\* create_bookable_resource_booking._variant_payload
_variant_payload(base, bookingstatus_key, resource_key) ==
    [base EXCEPT
       !.status = IF base.status \in SeqRange(booking_keys)
                  THEN bookingstatus_key ELSE base.status,
       !.resource = IF base.resource \in SeqRange(resource_keys)
                    THEN resource_key ELSE base.resource]

\* for booking_key in booking_keys: for resource_key in resource_keys
KeyPairs ==
    [k \in 1..(Len(booking_keys) * Len(resource_keys)) |->
        [bookingstatus_key |-> booking_keys[((k - 1) \div Len(resource_keys)) + 1],
         resource_key |-> resource_keys[((k - 1) % Len(resource_keys)) + 1]]]

\* What a run of create requests has done so far: the payloads posted, the
\* records the platform stored, and the pairs listed in `attempted`.
NoAttempts == [posts |-> <<>>, stored |-> <<>>, attempted |-> <<>>, status |-> "idle"]

\* One pass of the loop body of create_bookable_resource_booking
Attempted(acc, attempt, pair, answer) ==
    [posts |-> Append(acc.posts, attempt),
     stored |-> IF answer = "http_error" THEN acc.stored
                ELSE Append(acc.stored, Len(acc.posts) + 1),
     attempted |-> Append(acc.attempted, pair),
     status |-> IF answer = "ok" THEN "ok" ELSE "raised"]

\* DataverseClient.create_bookable_resource_booking from the k-th pair on:
\* the first create that returns ends the loop, any exception moves on.
RECURSIVE create_bookable_resource_booking(_, _, _, _)
create_bookable_resource_booking(schema, payload, k, acc) ==
    IF acc.status = "ok" THEN acc
    ELSE IF k > Len(KeyPairs) THEN [acc EXCEPT !.status = "raised"]
    ELSE create_bookable_resource_booking(schema, payload, k + 1,
             Attempted(acc,
                 _variant_payload(payload, KeyPairs[k].bookingstatus_key,
                                  KeyPairs[k].resource_key),
                 KeyPairs[k],
                 create_record(schema,
                     _variant_payload(payload, KeyPairs[k].bookingstatus_key,
                                      KeyPairs[k].resource_key))))

\* requirement_bind_candidates
requirement_bind_candidates(discovered_req_nav) ==
    (IF discovered_req_nav # "" THEN <<discovered_req_nav>> ELSE <<>>)
    \o <<DefaultRequirementKey>>

\* The loop over requirement_bind_candidates: each candidate runs
\* create_bookable_resource_booking afresh, whose `attempted` list is the one
\* the error raised at the end carries (last_error).
RECURSIVE requirement_attempts(_, _, _, _, _)
requirement_attempts(schema, payload, candidates, j, acc) ==
    IF j > Len(candidates) \/ acc.status = "ok" THEN acc
    ELSE requirement_attempts(schema, payload, candidates, j + 1,
             create_bookable_resource_booking(schema,
                 [payload EXCEPT !.requirement = candidates[j]], 1,
                 [acc EXCEPT !.attempted = <<>>, !.status = "idle"]))

\* The names create_booking_for_requirement puts in its payload
discovered_payload(schema) ==
    [status |-> IF try_get_many_to_one_nav_property_for_attribute(schema, "bookingstatus") # ""
                THEN try_get_many_to_one_nav_property_for_attribute(schema, "bookingstatus")
                ELSE "BookingStatus",
     resource |-> IF try_get_many_to_one_nav_property_for_attribute(schema, "resource") # ""
                  THEN try_get_many_to_one_nav_property_for_attribute(schema, "resource")
                  ELSE "Resource",
     requirement |-> ""]

\* DataverseClient.create_booking_for_requirement down to its create
\* requests: a slot id without a concrete resource raises before any request.
create_booking_for_requirement_requests(schema, resource_id) ==
    IF resource_id = "" \/ resource_id = "unknown"
    THEN [NoAttempts EXCEPT !.status = "raised"]
    ELSE requirement_attempts(schema, discovered_payload(schema),
             requirement_bind_candidates(
                 try_get_many_to_one_nav_property_for_attribute(
                     schema, "msdyn_resourcerequirement")),
             1, NoAttempts)

\* One call of create_booking_for_requirement
create_booking_call ==
    /\ bookingCall.status = "idle"
    /\ \E resource_id \in {"r1", "unknown"} :
          bookingCall' = create_booking_for_requirement_requests(bookingSchema,
                                                                 resource_id)
    /\ UNCHANGED bookingSchema
    /\ UNCHANGED exceptCreate

QuietSchema ==
    [status |-> "BookingStatus", resource |-> "Resource",
     requirement |-> DefaultRequirementKey, discovered |-> {}, returns_id |-> TRUE]

CreateAtRest ==
    /\ bookingSchema = QuietSchema
    /\ bookingCall = NoAttempts

\* ------------------------------------------------- idempotency store file
MaxPutThreads == 2

MaxPuts == 3

MaxCrashes == 1

PutThreads == 1..MaxPutThreads

StoreKeys == {"k1", "k2"}

\* Content of a file: no file, a JSON map (its keys), or a text that was cut
\* short while it was being written.
Absent == [kind |-> "absent", keys |-> {}]

JsonMap(keys) == [kind |-> "map", keys |-> keys]

Partial == [kind |-> "partial", keys |-> {}]

NotInPut == [pc |-> "idle", key |-> "", data |-> {}]

NoGet == [key |-> "", read |-> "none", found |-> FALSE]

\* _IdempotencyStore._read_all_unlocked: {} for no file and for a text that
\* json.loads rejects
_read_all_unlocked(f) == IF f.kind = "map" THEN f.keys ELSE {}

\* An entry to put that takes the lock whether or not it is held
PutAcquire_without_lock(t) ==
    /\ putters[t].pc = "idle"
    /\ putsStarted < MaxPuts
    /\ \E key \in StoreKeys :
          putters' = [putters EXCEPT ![t] = [pc |-> "read", key |-> key, data |-> {}]]
    /\ lockHolder' = t
    /\ putsStarted' = putsStarted + 1
    /\ UNCHANGED <<storeFile, tmpFile, completedPuts, lastGet, crashes>>
    /\ UNCHANGED exceptFile

\* put: `with self._lock`
PutAcquire(t) ==
    /\ putters[t].pc = "idle"
    /\ putsStarted < MaxPuts
    /\ lockHolder = 0
    /\ \E key \in StoreKeys :
          putters' = [putters EXCEPT ![t] = [pc |-> "read", key |-> key, data |-> {}]]
    /\ lockHolder' = t
    /\ putsStarted' = putsStarted + 1
    /\ UNCHANGED <<storeFile, tmpFile, completedPuts, lastGet, crashes>>
    /\ UNCHANGED exceptFile

\* put: data = self._read_all_unlocked(); data[key] = value
PutRead(t) ==
    /\ putters[t].pc = "read"
    /\ putters' = [putters EXCEPT ![t].pc = "write",
                                  ![t].data = _read_all_unlocked(storeFile)
                                              \cup {putters[t].key}]
    /\ UNCHANGED <<storeFile, tmpFile, lockHolder, completedPuts, lastGet,
                   putsStarted, crashes>>
    /\ UNCHANGED exceptFile

\* put: tmp.write_text(...) opens the temp file, which truncates it, and
\* has written part of the text
PutWriteBegin(t) ==
    /\ putters[t].pc = "write"
    /\ putters' = [putters EXCEPT ![t].pc = "writing"]
    /\ tmpFile' = Partial
    /\ UNCHANGED <<storeFile, lockHolder, completedPuts, lastGet, putsStarted, crashes>>
    /\ UNCHANGED exceptFile

\* put: tmp.write_text(...) has written the whole text
PutWriteEnd(t) ==
    /\ putters[t].pc = "writing"
    /\ putters' = [putters EXCEPT ![t].pc = "replace"]
    /\ tmpFile' = JsonMap(putters[t].data)
    /\ UNCHANGED <<storeFile, lockHolder, completedPuts, lastGet, putsStarted, crashes>>
    /\ UNCHANGED exceptFile

\* put: tmp.replace(self._path), a rename over the target
PutReplace(t) ==
    /\ putters[t].pc = "replace"
    /\ putters' = [putters EXCEPT ![t].pc = "release"]
    /\ storeFile' = tmpFile
    /\ tmpFile' = Absent
    /\ UNCHANGED <<lockHolder, completedPuts, lastGet, putsStarted, crashes>>
    /\ UNCHANGED exceptFile

\* put: the end of the with block; put returns
PutRelease(t) ==
    /\ putters[t].pc = "release"
    /\ putters' = [putters EXCEPT ![t] = NotInPut]
    /\ lockHolder' = IF lockHolder = t THEN 0 ELSE lockHolder
    /\ completedPuts' = completedPuts \cup {putters[t].key}
    /\ UNCHANGED <<storeFile, tmpFile, lastGet, putsStarted, crashes>>
    /\ UNCHANGED exceptFile

\* _IdempotencyStore.get: under the lock, one read of the file; what it
\* read and whether it returned an entry
IdempotencyGet ==
    /\ lockHolder = 0
    /\ \E key \in StoreKeys :
          lastGet' = [key |-> key, read |-> storeFile.kind,
                      found |-> key \in _read_all_unlocked(storeFile)]
    /\ UNCHANGED <<storeFile, tmpFile, lockHolder, putters, completedPuts,
                   putsStarted, crashes>>
    /\ UNCHANGED exceptFile

\* The process dies at any point and is started again: its threads and its
\* lock are gone, the two files stay as they are.
Crash ==
    /\ crashes < MaxCrashes
    /\ crashes' = crashes + 1
    /\ putters' = [t \in PutThreads |-> NotInPut]
    /\ lockHolder' = 0
    /\ UNCHANGED <<storeFile, tmpFile, completedPuts, lastGet, putsStarted>>
    /\ UNCHANGED exceptFile

FileAtRest ==
    /\ storeFile = Absent
    /\ tmpFile = Absent
    /\ lockHolder = 0
    /\ putters = [t \in PutThreads |-> NotInPut]
    /\ completedPuts = {}
    /\ lastGet = NoGet
    /\ putsStarted = 0
    /\ crashes = 0

\* ------------------------------------------------- requirement polling
\* timeout_seconds and poll_interval_seconds of a call, in tenths of a
\* second: the values the callers pass (25 s and 1 s) scaled down, a zero
\* and a negative timeout, and a zero interval.
TimeoutInputs == {0 - 10, 0, 25}

IntervalInputs == {0, 10}

\* How long one list_resource_requirements_for_work_order takes
ListDurations == {0, 7}

MinSleep == 1

Max(a, b) == IF a > b THEN a ELSE b

NotPolling ==
    [pc |-> "idle", deadline |-> 0, interval |-> 0, items |-> FALSE,
     polls |-> 0, result |-> "none", missed |-> FALSE, overdue |-> FALSE]

\* wait_for_work_order_resource_requirements: the deadline is taken
PollStart ==
    /\ poller.pc = "idle"
    /\ \E timeout_seconds \in TimeoutInputs, poll_interval_seconds \in IntervalInputs :
          poller' = [NotPolling EXCEPT
                       !.pc = "list",
                       !.deadline = pollClock + Max(0, timeout_seconds),
                       !.interval = poll_interval_seconds]
    /\ UNCHANGED <<pollClock, vendorRequirement>>
    /\ UNCHANGED exceptPoll

\* items = self.list_resource_requirements_for_work_order(...): the platform
\* answers with what it holds, after some time
PollList ==
    /\ poller.pc = "list"
    /\ \E d \in ListDurations : pollClock' = pollClock + d
    /\ poller' = [poller EXCEPT !.pc = "check", !.items = vendorRequirement,
                                !.polls = poller.polls + 1]
    /\ UNCHANGED vendorRequirement
    /\ UNCHANGED exceptPoll

\* A loop body that looks at the deadline before it looks at the items
PollCheck_deadline_first ==
    /\ poller.pc = "check"
    /\ poller' =
          IF pollClock >= poller.deadline
          THEN [poller EXCEPT !.pc = "done", !.result = "empty"]
          ELSE IF poller.items
          THEN [poller EXCEPT !.pc = "done", !.result = "items"]
          ELSE [poller EXCEPT !.pc = "sleep"]
    /\ UNCHANGED <<pollClock, vendorRequirement>>
    /\ UNCHANGED exceptPoll

\* if items: return items; if time.monotonic() >= deadline: return [].
\* `missed` and `overdue` record a poll that found a requirement, or an
\* empty poll past the deadline, after which the loop went on.
PollCheck ==
    /\ poller.pc = "check"
    /\ poller' =
          IF poller.items
          THEN [poller EXCEPT !.pc = "done", !.result = "items"]
          ELSE IF pollClock >= poller.deadline
          THEN [poller EXCEPT !.pc = "done", !.result = "empty"]
          ELSE [poller EXCEPT !.pc = "sleep"]
    /\ UNCHANGED <<pollClock, vendorRequirement>>
    /\ UNCHANGED exceptPoll

\* time.sleep(max(0.1, float(poll_interval_seconds)))
PollSleep ==
    /\ poller.pc = "sleep"
    /\ pollClock' = pollClock + Max(MinSleep, poller.interval)
    /\ poller' = [poller EXCEPT !.pc = "list",
                                !.missed = poller.missed \/ poller.items,
                                !.overdue = poller.overdue
                                            \/ pollClock >= poller.deadline]
    /\ UNCHANGED vendorRequirement
    /\ UNCHANGED exceptPoll

\* The platform creates the requirement of the work order at some moment.
VendorCreatesRequirement ==
    /\ ~vendorRequirement
    /\ vendorRequirement' = TRUE
    /\ UNCHANGED <<pollClock, poller>>
    /\ UNCHANGED exceptPoll

PollAtRest ==
    /\ pollClock = 0
    /\ poller = NotPolling
    /\ vendorRequirement = FALSE

\* ------------------------------------------------- availability windows
\* The phrases a tool is called with: the three day phrases (one with blanks
\* and capitals), the midday phrases, the week, the two working-day horizons
\* and a phrase the function does not know.
WhenInputs ==
    {"today", " Today ", "tomorrow", "today_or_tomorrow", "around midday",
     "midday tomorrow", "this week", "next 5 working days",
     "next 3 working days", "whenever"}

\* (when or "").strip().lower()
StripLower(when) == IF when = " Today " THEN "today" ELSE when

\* The words the function looks for inside a phrase: word in w
InPhrase(word, w) ==
    \/ word = w
    \/ word = "midday" /\ w \in {"around midday", "midday tomorrow"}
    \/ word = "tomorrow" /\ w \in {"midday tomorrow", "today_or_tomorrow"}
    \/ word = "today" /\ w = "today_or_tomorrow"

five_days_phrases ==
    {"next 5 working days", "next five working days", "5 working days",
     "next_5_working_days", "next5workingdays", "next 5 days", "5 days"}

three_days_phrases ==
    {"next 3 working days", "next three working days", "3 working days",
     "next_3_working_days", "next3workingdays"}

\* now_local.date(): the number of the local day; day 0 is a Saturday and
\* day 1 the Sunday on which summer time begins
DateOf(w) == w \div (24 * 3600)

\* date.weekday(): Monday = 0 ... Sunday = 6
weekday(d) == (d + 5) % 7

\* datetime.combine(d, datetime.min.time(), tzinfo=tz).replace(hour=h, minute=0, second=0)
DateAtHour(d, h) == d * 24 * 3600 + h * 3600

\* now_local.hour
HourOf(w) == (w % (24 * 3600)) \div 3600

_is_working_day(d) == weekday(d) < 5

RECURSIVE _next_working_date(_)
_next_working_date(d) ==
    IF _is_working_day(d) THEN d ELSE _next_working_date(d + 1)

RECURSIVE _add_working_days(_, _)
_add_working_days(d, days) ==
    IF days <= 0 THEN d
    ELSE _add_working_days(d + 1, IF _is_working_day(d + 1) THEN days - 1 ELSE days)

\* _compute_window_utc._day_window
_day_window(now_local, date_local, start_h, end_h) ==
    LET start_local == DateAtHour(date_local, start_h)
        end_local == DateAtHour(date_local, end_h)
    IN  <<FromLocal(IF start_local < now_local /\ date_local = DateOf(now_local)
                    THEN now_local ELSE start_local),
          FromLocal(end_local)>>

\* The "this week" branch: from now (or 08:00) through Sunday 18:00 local
this_week_window(now_local) ==
    LET days_to_sunday == 6 - weekday(DateOf(now_local))
        end_date == DateOf(now_local) + days_to_sunday
        start_local == DateAtHour(DateOf(now_local), 8)
    IN  <<FromLocal(IF now_local > start_local THEN now_local ELSE start_local),
          FromLocal(DateAtHour(end_date, 18))>>

\* The start day of a working-day horizon
working_start_day(now_local) ==
    IF _is_working_day(DateOf(now_local)) /\ HourOf(now_local) >= 18
    THEN _next_working_date(DateOf(now_local) + 1)
    ELSE _next_working_date(DateOf(now_local))

\* The "next 5 working days" and "next 3 working days" branches: more is the
\* number of working days added to the start day (4 and 2).
working_days_window(now_local, more) ==
    LET start_local == DateAtHour(working_start_day(now_local), 8)
        end_day_local == _add_working_days(working_start_day(now_local), more)
    IN  <<FromLocal(IF now_local > start_local THEN now_local ELSE start_local),
          FromLocal(DateAtHour(end_day_local, 18))>>

\* server._compute_window_utc
_compute_window_utc(when, now_utc) ==
    LET w == StripLower(when)
        now_local == ToLocal(now_utc)
    IN  IF w \in {"today", "tomorrow", "today_or_tomorrow"}
        THEN compute_day_window_utc(w, now_utc)
        ELSE IF InPhrase("midday", w) \/ InPhrase("noon", w)
        THEN _day_window(now_local,
                 IF InPhrase("tomorrow", w) THEN DateOf(now_local) + 1
                 ELSE DateOf(now_local), 11, 14)
        ELSE IF InPhrase("this week", w) \/ w = "week"
        THEN this_week_window(now_local)
        ELSE IF w \in five_days_phrases THEN working_days_window(now_local, 4)
        ELSE IF w \in three_days_phrases THEN working_days_window(now_local, 2)
        ELSE working_days_window(now_local, 4)

NoWindowCall == [when |-> "", at |-> 0, start_utc |-> 0, end_utc |-> 0]

\* A tool computes the window of its "when" argument.
compute_window_call ==
    /\ lastWindow = NoWindowCall
    /\ \E when \in WhenInputs :
          LET window == _compute_window_utc(when, windowNow)
          IN  lastWindow' = [when |-> when, at |-> windowNow,
                             start_utc |-> window[1], end_utc |-> window[2]]
    /\ UNCHANGED windowNow
    /\ UNCHANGED exceptWindow

\* Days on which a window is computed: the Saturday and the Sunday of the
\* clock change, and the week after them.
WindowDays == 0..8

\* Times of day in UTC at which a window is computed
WindowTimes ==
    {Hm(6, 30) * 60, Hm(9, 0) * 60, Hm(12, 30) * 60 + 15, Hm(13, 30) * 60,
     Hm(17, 0) * 60, Hm(18, 0) * 60, Hm(21, 0) * 60}

WindowAtRest ==
    /\ windowNow = 0
    /\ lastWindow = NoWindowCall

\* ------------------------------------------------- capability probe
MaxProbes == 3

\* Action names a probe is asked about: two actions, one of them also with
\* blanks around it, and the empty name.
ProbeNames ==
    {LegacyAction, " msdyn_SearchResourceAvailability ", "msdyn_FpsAction", ""}

\* (action_name or "").strip()
StripName(action_name) ==
    IF action_name = " msdyn_SearchResourceAvailability " THEN LegacyAction
    ELSE action_name

\* The platform's schema document: GET $metadata fails, or it returns a text
\* that declares a set of actions, possibly none.
SchemaDocuments ==
    {[fetch |-> "http_error", actions |-> {}]} \cup
    {[fetch |-> "ok", actions |-> a] : a \in SUBSET {LegacyAction, "msdyn_FpsAction"}}

\* What the platform does with POST /<actionName> and an empty payload: an
\* HTTP status, or no answer at all.
PostAnswers == {"204", "400", "403", "404", "no_response"}

NotLoaded == [loaded |-> FALSE, names |-> {}]

\* DataverseClient.try_list_action_names: the names and the cache it leaves
try_list_action_names(name_cache, doc) ==
    IF name_cache.loaded
    THEN [names |-> name_cache.names, cache |-> name_cache, fetched |-> FALSE]
    ELSE IF doc.fetch = "ok"
    THEN [names |-> doc.actions,
          cache |-> [loaded |-> TRUE, names |-> doc.actions], fetched |-> TRUE]
    ELSE [names |-> {}, cache |-> [loaded |-> TRUE, names |-> {}], fetched |-> TRUE]

\* self._action_probe_cache[name]
Cached(probe_cache, name) == {e \in probe_cache : e.name = name}

Answer(name, exists, posted, fetched, hit) ==
    [name |-> name, exists |-> exists, posted |-> posted, fetched |-> fetched,
     hit |-> hit]

\* The empty-payload POST of the fallback: resp.status_code != 404, and False
\* when the request raises
post_probe(status) == status # "404" /\ status # "no_response"

\* DataverseClient.probe_unbound_action_exists after the two early returns:
\* membership when names were listed, else the POST
probe_after_listing(name, listed, status) ==
    IF listed.names # {}
    THEN Answer(name, name \in listed.names, FALSE, listed.fetched, FALSE)
    ELSE Answer(name, post_probe(status), TRUE, listed.fetched, FALSE)

NoProbe == Answer("", FALSE, FALSE, FALSE, FALSE)

\* One call of DataverseClient.probe_unbound_action_exists
probe_unbound_action_call ==
    /\ probesLeft > 0
    /\ \E action_name \in ProbeNames :
          LET name == StripName(action_name)
              listed == try_list_action_names(action_name_cache, schemaDocument)
              answer == probe_after_listing(name, listed, postAnswer)
          IN  IF name = ""
              THEN /\ lastProbe' = [NoProbe EXCEPT !.hit = TRUE]
                   /\ UNCHANGED <<action_name_cache, action_probe_cache>>
              ELSE IF Cached(action_probe_cache, name) # {}
              THEN /\ lastProbe' =
                         Answer(name,
                                \E e \in Cached(action_probe_cache, name) : e.exists,
                                FALSE, FALSE, TRUE)
                   /\ UNCHANGED <<action_name_cache, action_probe_cache>>
              ELSE /\ lastProbe' = answer
                   /\ action_name_cache' = listed.cache
                   /\ action_probe_cache' =
                         action_probe_cache \cup
                            {[name |-> name, exists |-> answer.exists]}
    /\ probesLeft' = probesLeft - 1
    /\ UNCHANGED <<schemaDocument, postAnswer>>
    /\ UNCHANGED exceptProbe

ProbeAtRest ==
    /\ schemaDocument = [fetch |-> "http_error", actions |-> {}]
    /\ postAnswer = "404"
    /\ action_name_cache = NotLoaded
    /\ action_probe_cache = {}
    /\ lastProbe = NoProbe
    /\ probesLeft = 0

ClientAtRest ==
    /\ CreateAtRest
    /\ FileAtRest
    /\ PollAtRest
    /\ WindowAtRest
    /\ ProbeAtRest

SearchAtRest ==
    /\ now = 0
    /\ ticks = 0
    /\ vendorSlots = <<>>
    /\ vendorPlatform = QuietPlatform
    /\ pending = 0
    /\ cache = <<>>
    /\ lastSearch = NoSearch
    /\ slotBookings = {}

\* ------------------------------------------------------------ specification
SettingsSpace ==
    [allow_writes : BOOLEAN, demo_fast : BOOLEAN, demo_res : {"none", "r1"}]

Init ==
    /\ settings \in SettingsSpace
    /\ cases = {}
    /\ workOrders = {UpstreamWorkOrder}
    /\ requirements = {UpstreamWorkOrder}
    /\ bookings = {}
    /\ store = <<>>
    /\ calls = 0
    /\ proc = [p \in Procs |-> Idle]
    /\ writeLog = {}
    /\ now = 0
    /\ ticks = 0
    /\ vendorSlots = <<>>
    /\ vendorPlatform = QuietPlatform
    /\ pending = 0
    /\ cache = <<>>
    /\ lastSearch = NoSearch
    /\ slotBookings = {}
    /\ ClientAtRest

Next ==
    \/ \E p \in Procs : ScheduleStart(p)
    \/ \E p \in Procs : CreateChain(p)
    \/ \E p \in Procs : BookRequirement(p)
    \/ \E p \in Procs : ConfirmBooking(p)
    \/ \E p \in Procs : UpdateRecordTool(p)
    \/ \E p \in Procs : get_availability_for_work_order(p)
    \/ VendorAutoCreateRequirement
    \/ VendorDeleteBooking

Spec == Init /\ [][Next]_vars

\* Wall clocks at which a search is made: before opening, 45 seconds past
\* the half hour, and shortly before closing.
NowInputs == {Hm(7, 0) * 60, Hm(8, 30) * 60 + 45, Hm(17, 10) * 60}

OrchestratorAtRest ==
    /\ cases = {}
    /\ workOrders = {UpstreamWorkOrder}
    /\ requirements = {UpstreamWorkOrder}
    /\ bookings = {}
    /\ store = <<>>
    /\ calls = 0
    /\ proc = [p \in Procs |-> Idle]
    /\ writeLog = {}

\* Free-slot lists of the runs that vary the platform: none, a concrete
\* resource, no resource, and two resources.
FewSlotLists ==
    { <<>>,
      <<[resource |-> "r1", start |-> TSS(Hm(9, 10), "Z", 0, ""),
                            end |-> TSS(Hm(12, 0), "Z", 0, "")]>>,
      <<[resource |-> "", start |-> TSS(Hm(6, 0), "Z", 0, ""),
                          end |-> TSS(Hm(10, 30), "Z", 0, "")]>>,
      <<[resource |-> "r1", start |-> TSS(Hm(9, 10), "Z", 0, ""),
                            end |-> TSS(Hm(12, 0), "Z", 0, "")],
        [resource |-> "r2", start |-> TSS(Hm(23, 45), "Z", 0, ""),
                            end |-> TSS(Hm(36, 0), "Z", 0, "")]>> }

\* One availability search against any platform.
InitSearch ==
    /\ settings \in {s \in SettingsSpace : s.allow_writes}
    /\ OrchestratorAtRest
    /\ ClientAtRest
    /\ now \in NowInputs
    /\ ticks = 0
    /\ vendorSlots \in FewSlotLists
    /\ vendorPlatform \in PlatformSpace
    /\ pending = 1
    /\ cache = <<>>
    /\ lastSearch = NoSearch
    /\ slotBookings = {}

NextSearch ==
    \/ get_boiler_repair_availability
    \/ availability_for_work_order

SpecSearch == InitSearch /\ [][NextSearch]_vars

\* A platform on which every action answers with the free slots
SlotPlatforms ==
    {pf \in PlatformSpace : /\ pf.sb /\ pf.legacy = "slots" /\ pf.v2 = "absent"
                            /\ pf.group = "slots" /\ pf.ufx = "slots"}

\* One availability search on any list of free slots.
InitSlots ==
    /\ settings \in {s \in SettingsSpace : s.allow_writes}
    /\ OrchestratorAtRest
    /\ ClientAtRest
    /\ now \in NowInputs
    /\ ticks = 0
    /\ vendorSlots \in FreeSlotLists
    /\ vendorPlatform \in SlotPlatforms
    /\ pending = 1
    /\ cache = <<>>
    /\ lastSearch = NoSearch
    /\ slotBookings = {}

SpecSlots == InitSlots /\ [][NextSearch]_vars

\* Platforms of the booking runs: the requirement-based legacy action has
\* the slots, or only the generic actions have them.
BookingPlatforms ==
    {pf \in PlatformSpace : /\ pf.sb /\ pf.v2 = "absent" /\ pf.ufx = "slots"
                           /\ pf.legacy # "empty"}

\* Several tool calls with time passing between them.
InitBooking ==
    /\ settings \in {s \in SettingsSpace : s.demo_res = "none"}
    /\ OrchestratorAtRest
    /\ ClientAtRest
    /\ now \in {Hm(7, 30) * 60, Hm(9, 0) * 60}
    /\ ticks = 0
    /\ vendorSlots \in FewSlotLists \ {<<>>}
    /\ vendorPlatform \in BookingPlatforms
    /\ pending = MaxRequests
    /\ cache = <<>>
    /\ lastSearch = NoSearch
    /\ slotBookings = {}

NextBooking ==
    \/ get_boiler_repair_availability
    \/ availability_for_work_order
    \/ create_booking_for_work_order_slot_number
    \/ Tick

SpecBooking == InitBooking /\ [][NextBooking]_vars

\* One booking creation on any booking-table schema.
InitCreate ==
    /\ settings = [allow_writes |-> TRUE, demo_fast |-> FALSE, demo_res |-> "none"]
    /\ OrchestratorAtRest
    /\ SearchAtRest
    /\ bookingSchema \in BookingSchemas
    /\ bookingCall = NoAttempts
    /\ FileAtRest
    /\ PollAtRest
    /\ WindowAtRest
    /\ ProbeAtRest

NextCreate ==
    \/ create_booking_call

SpecCreate == InitCreate /\ [][NextCreate]_vars

\* Threads of one server process putting into the idempotency store, with
\* the process crashing and starting again.
InitFile ==
    /\ settings = [allow_writes |-> TRUE, demo_fast |-> FALSE, demo_res |-> "none"]
    /\ OrchestratorAtRest
    /\ SearchAtRest
    /\ ClientAtRest

NextFile ==
    \/ \E t \in PutThreads : PutAcquire(t)
    \/ \E t \in PutThreads : PutRead(t)
    \/ \E t \in PutThreads : PutWriteBegin(t)
    \/ \E t \in PutThreads : PutWriteEnd(t)
    \/ \E t \in PutThreads : PutReplace(t)
    \/ \E t \in PutThreads : PutRelease(t)
    \/ IdempotencyGet
    \/ Crash

SpecFile == InitFile /\ [][NextFile]_vars

\* One wait_for_work_order_resource_requirements call, started at some
\* reading of the monotonic clock.  The call runs on while the platform
\* answers, which is the fairness of its steps.
InitPoll ==
    /\ settings = [allow_writes |-> TRUE, demo_fast |-> FALSE, demo_res |-> "none"]
    /\ OrchestratorAtRest
    /\ SearchAtRest
    /\ CreateAtRest
    /\ FileAtRest
    /\ WindowAtRest
    /\ ProbeAtRest
    /\ pollClock \in {0, 3}
    /\ poller = NotPolling
    /\ vendorRequirement \in BOOLEAN

PollStep ==
    \/ PollStart
    \/ PollList
    \/ PollCheck
    \/ PollSleep

NextPoll ==
    \/ PollStep
    \/ VendorCreatesRequirement

SpecPoll == InitPoll /\ [][NextPoll]_vars /\ WF_vars(PollStep)

\* One window computation for any phrase at any of the clocks.
InitWindow ==
    /\ settings = [allow_writes |-> TRUE, demo_fast |-> FALSE, demo_res |-> "none"]
    /\ OrchestratorAtRest
    /\ SearchAtRest
    /\ CreateAtRest
    /\ FileAtRest
    /\ PollAtRest
    /\ ProbeAtRest
    /\ windowNow \in {d * 24 * 3600 + t : d \in WindowDays, t \in WindowTimes}
    /\ lastWindow = NoWindowCall

NextWindow ==
    \/ compute_window_call

SpecWindow == InitWindow /\ [][NextWindow]_vars

\* A client probing for actions on any platform.
InitProbe ==
    /\ settings = [allow_writes |-> TRUE, demo_fast |-> FALSE, demo_res |-> "none"]
    /\ OrchestratorAtRest
    /\ SearchAtRest
    /\ CreateAtRest
    /\ FileAtRest
    /\ PollAtRest
    /\ WindowAtRest
    /\ schemaDocument \in SchemaDocuments
    /\ postAnswer \in PostAnswers
    /\ action_name_cache = NotLoaded
    /\ action_probe_cache = {}
    /\ lastProbe = NoProbe
    /\ probesLeft = MaxProbes

NextProbe ==
    \/ probe_unbound_action_call

SpecProbe == InitProbe /\ [][NextProbe]_vars

\* ------------------------------------------------------------------ claims
\* The create and update requests a call has issued.
WritesOf(p) == {w \in writeLog : w.call = p}

\* C1: a schedule_customer_request call made for a key whose stored booking
\* the platform still returns answers with idempotent_replay = true and the
\* stored chain ids, and issues no create or update request and creates no
\* record.
C1_ReplayReturnsStoredChain ==
    [][\A p \in Procs :
         (proc[p].pc = "idle" /\ proc'[p].verify = "ok")
         => /\ proc'[p].pc = "done"
            /\ proc'[p].res.status = "ok"
            /\ proc'[p].res.replay
            /\ proc'[p].key \in DOMAIN store
            /\ proc'[p].res.case = store[proc'[p].key].case
            /\ proc'[p].res.wo = store[proc'[p].key].wo
            /\ proc'[p].res.req = store[proc'[p].key].req
            /\ proc'[p].res.booking = store[proc'[p].key].booking
            /\ writeLog' = writeLog
            /\ <<cases', workOrders', requirements', bookings'>>
                  = <<cases, workOrders, requirements, bookings>>]_vars

\* A call returned ok for a key and a later call for the same key replayed it.
C1_Witness ==
    \E p, q \in Procs :
       /\ q < p
       /\ proc[q].res.status = "ok" /\ ~proc[q].res.replay
       /\ proc[p].key = proc[q].key
       /\ proc[p].verify = "ok"
       /\ proc[p].res.replay
       /\ proc[p].res.booking = q
       /\ WritesOf(p) = {}

\* C2: per idempotency key at most one booking exists on the platform at any
\* time, whatever the interleaving of the calls.
C2_AtMostOneBookingPerKey ==
    \A b1, b2 \in bookings :
       (b1.live /\ b2.live /\ b1.key = b2.key) => b1.id = b2.id

\* C3: a repeated call whose stored booking is gone from the platform does not
\* answer with the cached ids; it goes on as a fresh request, and when it
\* succeeds its result carries a chain it created and the store maps the key
\* to the new booking id.
C3_StaleRecordStartsAfresh ==
    [][\A p \in Procs :
         proc'[p].verify = "absent"
         => /\ ~proc'[p].res.replay
            /\ proc[p].pc = "idle" => proc'[p].pc = "chain"
            /\ (proc[p].pc = "confirm" /\ proc'[p].res.status = "ok")
               => /\ proc'[p].res.booking = p
                  /\ proc'[p].res.booking # proc[p].seen.booking
                  /\ \E b \in bookings : b.id = p /\ b.key = proc[p].key
                  /\ proc'[p].res.case = p /\ p \in cases
                  /\ proc'[p].res.wo = p /\ p \in workOrders
                  /\ {"incidents", "msdyn_workorders", "bookableresourcebookings"}
                        \subseteq {w.entity : w \in {x \in WritesOf(p) : x.method = "POST"}}
                  /\ store'[proc[p].key].booking = p]_vars

\* A call found its stored booking gone, built a new chain and stored it.
C3_Witness ==
    \E p \in Procs :
       /\ proc[p].verify = "absent"
       /\ proc[p].seen.booking # 0
       /\ ~BookingExists(proc[p].seen.booking)
       /\ proc[p].res.status = "ok"
       /\ proc[p].res.booking = p
       /\ store[proc[p].key].booking = p

\* C4: while settings.allow_writes is false no tool issues a create or update
\* request.
C4_GateOffNoWrites == (~settings.allow_writes) => writeLog = {}

\* C5: the idempotency store changes only when a call whose booking exists on
\* the platform has re-fetched it and returns ok, and then by exactly that
\* call's chain under its key; a call ending in any other way leaves the
\* store as it was.
C5_StoreWrittenOnlyAfterConfirmation ==
    [][/\ store' # store
          => \E p \in Procs :
                /\ proc[p].pc = "confirm"
                /\ \E b \in bookings :
                      b.id = proc[p].booking /\ b.live /\ b.key = proc[p].key
                /\ proc'[p].pc = "done"
                /\ proc'[p].res.status = "ok"
                /\ proc'[p].res.booking = proc[p].booking
                /\ store' = IdemPut(store, proc[p].key, Chain(proc[p]))
       /\ \A p \in Procs :
             (proc[p].pc # "done" /\ proc'[p].pc = "done"
                /\ (proc'[p].res.status # "ok" \/ proc'[p].res.replay))
             => store' = store]_vars

\* One call ended with its booking unconfirmed and nothing stored for its key
\* while another call's confirmed chain is in the store.
C5_Witness ==
    \E p, q \in Procs :
       /\ proc[p].res.status = "ok" /\ ~proc[p].res.replay
       /\ proc[p].key \in DOMAIN store
       /\ store[proc[p].key].booking = proc[p].booking
       /\ proc[q].res.msg = "unconfirmed"
       /\ proc[q].booking = q
       /\ proc[q].key \notin DOMAIN store

\* C6: a schedule_customer_request call that ends in an error after it has
\* created records returns the ids of the records it created.
C6_ErrorCarriesCreatedIds ==
    \A p \in Procs :
       (proc[p].pc = "done" /\ proc[p].res.status = "error")
       => /\ p \in cases => proc[p].res.case = p
          /\ p \in workOrders => proc[p].res.wo = p
          /\ (\E b \in bookings : b.id = p) => proc[p].res.booking = p

\* C7: no exception leaves schedule_customer_request, search_availability or
\* book_requirement.
C7_NoExceptionPropagates ==
    \A p \in Procs :
       proc[p].res.raised \notin
          {"schedule_customer_request", "search_availability", "book_requirement"}

\* C8: a call whose appointment starts before its window or ends after it ends
\* with the "outside the selected availability window" error, raises nothing,
\* issues no request, creates no Case, WorkOrder or Booking, and puts nothing
\* in the idempotency store.
C8_OutsideWindowRejected ==
    \A p \in Procs :
       (proc[p].dur > 0 /\ (proc[p].ps < proc[p].ws \/ proc[p].pe > proc[p].we))
       => /\ proc[p].pc = "done"
          /\ proc[p].res.status = "error"
          /\ proc[p].res.msg = "outside_window"
          /\ proc[p].res.raised = ""
          /\ WritesOf(p) = {}
          /\ p \notin cases
          /\ p \notin workOrders
          /\ ~\E b \in bookings : b.id = p
          /\ \A k \in DOMAIN store : store[k].booking # p /\ store[k].case # p

\* Both ways of lying outside the window were rejected.
C8_Witness ==
    \E p, q \in Procs :
       /\ proc[p].res.msg = "outside_window"
       /\ proc[p].ps < proc[p].ws
       /\ proc[q].res.msg = "outside_window"
       /\ proc[q].ps >= proc[q].ws
       /\ proc[q].pe > proc[q].we

\* C9: a call that created its work order and got no requirement for it by
\* the deadline ends with status error, carries the ids of its Case and its
\* WorkOrder, and issues no request for a Requirement or a Booking.
C9_NoRequirementReturnsCaseAndWorkOrder ==
    \A p \in Procs :
       (proc[p].pc = "done" /\ proc[p].wo = p /\ proc[p].req = 0)
       => /\ proc[p].res.status = "error"
          /\ proc[p].res.raised = ""
          /\ proc[p].res.case = p /\ p \in cases
          /\ proc[p].res.wo = p /\ p \in workOrders
          /\ proc[p].res.req = 0
          /\ proc[p].res.booking = 0
          /\ ~\E b \in bookings : b.id = p
          /\ ~\E w \in WritesOf(p) :
                w.entity \in {"msdyn_resourcerequirements", "bookableresourcebookings"}

\* The platform had created no requirement when the wait of a call ran out.
C9_Witness ==
    \E p \in Procs :
       /\ proc[p].pc = "done"
       /\ proc[p].wo = p
       /\ p \notin requirements
       /\ proc[p].res.msg = "no_requirement"
       /\ proc[p].res.case = p

\* C10: every booking a call creates starts and ends at the requested times,
\* and the times a successful call reports are those of its booking record.
C10_BookingHasRequestedTimes ==
    \A p \in Procs : \A b \in bookings :
       b.id = p
       => /\ b.start = proc[p].ps
          /\ b.end = proc[p].pe
          /\ proc[p].res.status = "ok" =>
                (proc[p].res.start = b.start /\ proc[p].res.end = b.end)

\* C24: a replayed call whose verification GET failed while the stored booking
\* is still on the platform creates no second Case, WorkOrder or Booking.
C24_TransientFailureCreatesNothing ==
    \A p \in Procs :
       (proc[p].verify = "transient" /\ BookingExists(proc[p].seen.booking))
       => {w \in WritesOf(p) : w.method = "POST"} = {}

\* ------------------------------------------------ claims on availability
\* The vendor actions a request POSTed
Invoked(trace) == {trace[i].action : i \in {j \in DOMAIN trace : trace[j].op = "invoke"}}

\* C11: no booking takes its slot or resource from the TTL availability
\* cache; every booking made by slot number was chosen from a vendor search
\* made within the same request.
C11_BookingsUseFreshSearch ==
    \A b \in slotBookings : ~b.from_cache /\ Invoked(b.trace) # {}

\* The last search asked the vendor client about a requirement.
RequirementScoped ==
    /\ lastSearch.req # 0
    /\ lastSearch.requirement_id # ""
    /\ ~settings.demo_fast
    /\ lastSearch.s.vendor.status # "none"

\* Neither requirement-based action of the platform yields a slot for the
\* last search: they cannot be asked, are absent, or answer with none.
NoRequirementBasedSlot ==
    \/ ~vendorPlatform.sb
    \/ /\ action_slots(vendorPlatform.legacy, vendorSlots, settings.demo_res,
                       lastSearch.max_slots * 3) = <<>>
       /\ action_slots(vendorPlatform.v2, vendorSlots, settings.demo_res,
                       lastSearch.max_slots * 3) = <<>>

\* C12: a requirement-scoped vendor search in which neither requirement-based
\* action yields a slot returns status "error" with no slot, and makes no
\* request to the requirement-group action or to msdyn_FpsAction.
C12_RequirementSearchNeverFallsThrough ==
    RequirementScoped /\ NoRequirementBasedSlot =>
        LET v == lastSearch.s.vendor IN
        /\ v.status = "error"
        /\ v.slots = <<>>
        /\ ~v.raised
        /\ \A i \in DOMAIN v.trace : v.trace[i].action \notin {GroupAction, UfxAction}

\* Both requirement-based actions were tried on a platform with free slots
\* whose generic action would have answered, and the result is the error.
C12_Witness ==
    /\ RequirementScoped
    /\ NoRequirementBasedSlot
    /\ vendorSlots # <<>>
    /\ vendorPlatform.group = "slots"
    /\ lastSearch.s.vendor.attempted_actions = <<LegacyAction, V2Action>>
    /\ lastSearch.s.vendor.status = "error"

\* The slots of the last search were found by a search without a requirement.
SlotsFromGenericSearch ==
    /\ lastSearch.s.out.slots # <<>>
    /\ Invoked(lastSearch.s.trace) \cap {GroupAction, UfxAction} # {}

\* C13: when search_availability is given a requirement id and returns slots
\* of a generic search, the action is "fallback:<action>" and details holds
\* the requirement_based and the generic sub-report.
C13_GenericSlotsAreMarked ==
    lastSearch.requirement_id # "" /\ SlotsFromGenericSearch =>
        /\ lastSearch.s.out.action \in {FallbackAction(GroupAction),
                                        FallbackAction(UfxAction)}
        /\ {d.key : d \in lastSearch.s.out.details} = {"requirement_based", "generic"}

\* Positions of the requests of one kind to one action in a request trace
Positions(trace, op, action) ==
    {i \in DOMAIN trace : trace[i] = [op |-> op, action |-> action]}

\* The actions POSTed, in the order of the requests
InvokedInOrder(trace) ==
    LET Posted(e) == e.op = "invoke"
        posted == SelectSeq(trace, Posted)
    IN  [i \in DOMAIN posted |-> posted[i].action]

\* C14: in a requirement-scoped search the legacy action is probed and tried
\* before V2; V2 is POSTed only if the legacy action is absent or yields no
\* slot; and when only V2 exists and has slots the result is ok with action
\* V2 and attempted_actions listing the attempts in order.
C14_LegacyBeforeV2 ==
    RequirementScoped /\ vendorPlatform.sb =>
        LET v == lastSearch.s.vendor
            legacy_slots == action_slots(vendorPlatform.legacy, vendorSlots,
                                settings.demo_res, lastSearch.max_slots * 3)
            v2_slots == action_slots(vendorPlatform.v2, vendorSlots,
                            settings.demo_res, lastSearch.max_slots * 3)
        IN  /\ v.trace[1] = Probe(LegacyAction)
            /\ vendorPlatform.legacy # "absent" =>
                   Positions(v.trace, "invoke", LegacyAction) = {2}
            /\ \A i \in Positions(v.trace, "probe", V2Action)
                         \cup Positions(v.trace, "invoke", V2Action) :
                   /\ i > 1
                   /\ vendorPlatform.legacy # "absent" => i > 2
                   /\ legacy_slots = <<>>
            /\ v.attempted_actions = InvokedInOrder(v.trace)
            /\ (vendorPlatform.legacy = "absent" /\ v2_slots # <<>>) =>
                   /\ v.status = "ok"
                   /\ v.action = V2Action
                   /\ v.slots = v2_slots
                   /\ v.attempted_actions = <<V2Action>>
                   /\ v.trace = <<Probe(LegacyAction), Probe(V2Action),
                                  Invoke(V2Action)>>

\* Only V2 exists and it returned slots.
C14_Witness ==
    /\ RequirementScoped
    /\ vendorPlatform.sb
    /\ vendorPlatform.legacy = "absent"
    /\ lastSearch.s.vendor.status = "ok"
    /\ lastSearch.s.vendor.action = V2Action
    /\ lastSearch.s.vendor.attempted_actions = <<V2Action>>

\* The last search computed its slots from a vendor answer.
FreshResult ==
    /\ lastSearch.req # 0
    /\ ~lastSearch.s.hit
    /\ ~lastSearch.s.raised
    /\ lastSearch.s.vendor.status # "none"

OutSlots == lastSearch.s.out.slots

RawSlots == lastSearch.s.raw

StartOf(i) == ParseSeconds(OutSlots[i].start)

EndOf(i) == ParseSeconds(OutSlots[i].end)

\* Seconds since local midnight, and the local midnight, of an instant
LocalTimeOfDay(t) == ToLocal(t) % (24 * 3600)

LocalMidnight(t) == ToLocal(t) - LocalTimeOfDay(t)

\* The window the post-processor derives from the j-th raw slot of the search
WindowOf(j) ==
    exact_window(RawSlots[j], lastSearch.at + 30 * 60, lastSearch.duration * 60)

\* C15: every slot of a freshly computed result starts at or after the time
\* of the call plus 30 minutes.
C15_StartsAfterLeadTime ==
    FreshResult =>
        \A i \in DOMAIN OutSlots : StartOf(i) >= lastSearch.at + 30 * 60

\* C16: every returned slot starts at or after 08:00 and ends at or before
\* 18:00 local time of the local day of its start, and a raw window that
\* opens before 08:00 and can hold the duration after 08:00 yields a slot
\* starting at 08:00 of that day.
C16_WithinBusinessHours ==
    FreshResult =>
        /\ \A i \in DOMAIN OutSlots :
              /\ LocalTimeOfDay(StartOf(i)) >= 8 * 3600
              /\ StartOf(i) < EndOf(i)
              /\ ToLocal(EndOf(i)) <= LocalMidnight(StartOf(i)) + 18 * 3600
        /\ lastSearch.max_slots = 25 =>
              \A j \in DOMAIN RawSlots :
                 LET r == RawSlots[j]
                     lead == lastSearch.at + 30 * 60
                     opening == IF ParseSeconds(r.start) < lead THEN lead
                                ELSE ParseSeconds(r.start)
                     eight == FromLocal(LocalMidnight(opening) + 8 * 3600)
                 IN  (/\ IsIsoString(r.start) /\ IsIsoString(r.end)
                      /\ ParseSeconds(r.start) < ParseSeconds(r.end)
                      /\ LocalTimeOfDay(opening) < 8 * 3600
                      /\ ParseSeconds(r.end) >= eight + lastSearch.duration * 60)
                     => \E i \in DOMAIN OutSlots : StartOf(i) = eight

\* A raw window opening before 08:00 local was offered from 08:00.
C16_Witness ==
    /\ FreshResult
    /\ \E i \in DOMAIN OutSlots, j \in DOMAIN RawSlots :
          /\ IsIsoString(RawSlots[j].start)
          /\ LocalTimeOfDay(ParseSeconds(RawSlots[j].start)) < 8 * 3600
          /\ LocalMidnight(ParseSeconds(RawSlots[j].start)) = LocalMidnight(StartOf(i))
          /\ LocalTimeOfDay(StartOf(i)) = 8 * 3600

\* Exactly two raw slots reached the post-processor; both give a window long
\* enough for the duration, with the same rounded start and different ends.
TwoSlotsCollapse ==
    /\ FreshResult
    /\ Len(RawSlots) = 2
    /\ WindowOf(1) # NoWindow
    /\ WindowOf(2) # NoWindow
    /\ WindowOf(1).start = WindowOf(2).start
    /\ WindowOf(1).end # WindowOf(2).end

SmallerEndWindow ==
    IF WindowOf(1).end < WindowOf(2).end THEN WindowOf(1) ELSE WindowOf(2)

C18_DistinctStarts ==
    FreshResult =>
        /\ \A i, k \in DOMAIN OutSlots : i # k => StartOf(i) # StartOf(k)
        /\ lastSearch.max_slots = 25 =>
              \A j \in DOMAIN RawSlots :
                 WindowOf(j) # NoWindow =>
                    Cardinality({i \in DOMAIN OutSlots :
                                    StartOf(i) = WindowOf(j).start}) = 1

\* Two raw slots written differently denote the same start instant, a third
\* shares their rounded start, and one entry is returned.
C18_Witness ==
    /\ FreshResult
    /\ Len(RawSlots) = 3
    /\ \E j, k \in DOMAIN RawSlots :
          /\ RawSlots[j].start # RawSlots[k].start
          /\ IsIsoString(RawSlots[j].start) /\ IsIsoString(RawSlots[k].start)
          /\ ParseSeconds(RawSlots[j].start) = ParseSeconds(RawSlots[k].start)
    /\ \A j \in DOMAIN RawSlots : WindowOf(j) # NoWindow
    /\ \E j, k \in DOMAIN RawSlots :
          /\ ParseSeconds(RawSlots[j].start) # ParseSeconds(RawSlots[k].start)
          /\ WindowOf(j).start = WindowOf(k).start
    /\ Len(OutSlots) = 1

\* C19: every returned start is on a half hour of local time with zero
\* seconds, and was reached by rounding up: it is not earlier than the
\* start of every raw slot.
C19_HalfHourRoundedUp ==
    FreshResult =>
        \A i \in DOMAIN OutSlots :
           /\ LocalTimeOfDay(StartOf(i)) % (30 * 60) = 0
           /\ \E j \in DOMAIN RawSlots :
                 /\ IsIsoString(RawSlots[j].start)
                 /\ ParseSeconds(RawSlots[j].start) <= StartOf(i)

\* C20: the returned list is strictly ascending by start, has at most
\* max_slots entries when max_slots > 0, and numbers its entries 1, 2, ...
C20_SortedTruncatedNumbered ==
    FreshResult =>
        /\ \A i, k \in DOMAIN OutSlots : i < k => StartOf(i) < StartOf(k)
        /\ lastSearch.max_slots > 0 => Len(OutSlots) <= lastSearch.max_slots
        /\ \A i \in DOMAIN OutSlots : OutSlots[i].slot_number = i
        /\ lastSearch.s.out.count = Len(OutSlots)

\* The raw slots reached the post-processor out of order (an unparsable
\* start made the vendor client give up its sort), two of them give windows
\* with different starts, and the list was cut to max_slots = 1.
C20_Witness ==
    /\ FreshResult
    /\ lastSearch.max_slots = 1
    /\ \E j, k \in DOMAIN RawSlots :
          /\ j < k
          /\ WindowOf(j) # NoWindow /\ WindowOf(k) # NoWindow
          /\ WindowOf(j).start > WindowOf(k).start
          /\ Len(OutSlots) = 1
          /\ StartOf(1) = WindowOf(k).start

\* C21: the slot id of every slot search_availability returns has exactly
\* three "|"-separated parts, and its second and third part are the slot's
\* start and end fields character for character.
C21_SlotIdHasThreeParts ==
    lastSearch.req # 0 =>
        \A i \in 1..Len(OutSlots) :
            /\ Len(OutSlots[i].slot_id) = 3
            /\ OutSlots[i].slot_id[2] = OutSlots[i].start
            /\ OutSlots[i].slot_id[3] = OutSlots[i].end

\* A returned slot that comes from a raw slot whose resource id holds a "|"
C21_Witness ==
    /\ FreshResult
    /\ \E i \in 1..Len(OutSlots) : \E j \in 1..Len(RawSlots) :
          /\ Len(RawSlots[j].slot_id) = 4
          /\ WindowOf(j) # NoWindow
          /\ IsoSeconds(WindowOf(j).start) = OutSlots[i].start
          /\ OutSlots[i].slot_id[1] = "r3"

\* The resource a raw vendor slot belongs to, as a returned slot_id names it
RawResource(j) ==
    IF RawSlots[j].resource_id = "" THEN "unknown" ELSE RawSlots[j].resource_id

\* The i-th returned slot lies inside the j-th raw slot and names its resource.
InsideRaw(i, j) ==
    /\ IsIsoString(RawSlots[j].start)
    /\ IsIsoString(RawSlots[j].end)
    /\ ParseSeconds(RawSlots[j].start) <= StartOf(i)
    /\ EndOf(i) = StartOf(i) + lastSearch.duration * 60
    /\ EndOf(i) <= ParseSeconds(RawSlots[j].end)
    /\ OutSlots[i].slot_id[1] = RawResource(j)

\* C28: every slot of a freshly computed result lies inside a raw vendor
\* slot: some raw slot starts at or before the slot's start, ends at or
\* after the slot's end, which is the start plus the duration, and has the
\* resource named in the slot's slot_id.
C28_SlotsInsideRawSlots ==
    FreshResult => \A i \in DOMAIN OutSlots : \E j \in DOMAIN RawSlots : InsideRaw(i, j)

\* C27: a result served from the availability cache respects the lead time
\* at the time it is served: none of its slots starts earlier than the time
\* of the serving call plus 30 minutes.
C27_CachedResultKeepsLeadTime ==
    (lastSearch.req # 0 /\ lastSearch.s.hit) =>
        \A i \in 1..Len(OutSlots) : StartOf(i) >= lastSearch.at + lead_minutes * 60

\* ------------------------------------------- claims on booking creation
\* The create requests the platform accepted without returning a record id
AcceptedWithoutId ==
    {i \in 1..Len(bookingCall.posts) :
        create_record(bookingSchema, bookingCall.posts[i]) = "no_id"}

\* C22: after a create that the platform accepted without returning a record
\* id, a booking call sends no further create request, so it leaves at most
\* one Booking record on the platform.
C22_AcceptedCreateIsNotRetried ==
    /\ \A i \in AcceptedWithoutId : i = Len(bookingCall.posts)
    /\ Len(bookingCall.stored) <= 1

\* The name the metadata yields for a lookup, where it yields one
Discovered(attribute) ==
    try_get_many_to_one_nav_property_for_attribute(bookingSchema, attribute)

\* The first create request binds every lookup whose name was discovered
\* under that name.
FirstAttemptUsesDiscoveredNames ==
    bookingCall.posts # <<>> =>
        /\ Discovered("bookingstatus") # "" =>
              bookingCall.posts[1].status = Discovered("bookingstatus")
        /\ Discovered("resource") # "" =>
              bookingCall.posts[1].resource = Discovered("resource")
        /\ Discovered("msdyn_resourcerequirement") # "" =>
              bookingCall.posts[1].requirement = Discovered("msdyn_resourcerequirement")

\* Every request but the last one failed, and the pairs are taken in the
\* order of the two key lists.
AttemptsStopAtFirstSuccess ==
    /\ \A i \in 1..Len(bookingCall.posts) :
          create_record(bookingSchema, bookingCall.posts[i]) = "ok"
             => i = Len(bookingCall.posts) /\ bookingCall.status = "ok"
    /\ bookingCall.attempted = SubSeq(KeyPairs, 1, Len(bookingCall.attempted))

\* The error raised after the last failure carries every pair of names.
ErrorListsAllPairs ==
    (bookingCall.status = "raised" /\ bookingCall.posts # <<>>)
        => bookingCall.attempted = KeyPairs

\* C25: the first create attempt of a Booking uses the navigation-property
\* names discovered from metadata; the conventional names are tried only
\* after it fails, in a fixed order, stopping at the first success; when
\* every attempt fails the error lists all attempted name pairs.
C25_DiscoveredNamesFirst ==
    /\ FirstAttemptUsesDiscoveredNames
    /\ AttemptsStopAtFirstSuccess
    /\ ErrorListsAllPairs

PollReturnsRight ==
    poller.pc = "done" =>
        /\ poller.polls >= 1
        /\ ~poller.missed
        /\ ~poller.overdue
        /\ poller.result = "items" <=> poller.items
        /\ poller.result = "empty" <=> (~poller.items /\ pollClock >= poller.deadline)

\* C26: wait_for_work_order_resource_requirements terminates while the
\* platform keeps answering; it polls at least once, returns the list of the
\* first poll that finds a requirement, and returns an empty list after the
\* first empty poll at or past the deadline.
C26_PollTerminatesAndReturnsRight ==
    /\ []PollReturnsRight
    /\ (poller.pc # "idle") ~> (poller.pc = "done")

\* A call that slept, polled again past its deadline and returned empty
C26_Witness ==
    /\ poller.pc = "done"
    /\ poller.result = "empty"
    /\ poller.polls >= 3
    /\ poller.deadline > 3

\* ------------------------------------------- claims on availability windows
\* C29: for every phrase and every current local time, the window computed
\* by _compute_window_utc ends after it starts.
C29_WindowEndsAfterStart ==
    lastWindow # NoWindowCall => lastWindow.end_utc > lastWindow.start_utc

\* ------------------------------------------- claims on the capability probe
\* The schema document was fetched and parsed into a list of action names.
SchemaParsed == schemaDocument.fetch = "ok"

\* C30: a probe POSTs the empty payload only when the schema document could
\* not be fetched or parsed; when the document was parsed the answer is the
\* membership of the name in its action list; and the answer of the POST is
\* absent for HTTP 404 and present for any other status.
C30_ProbeBySchemaThenPost ==
    (lastProbe # NoProbe /\ lastProbe.name # "") =>
        /\ lastProbe.posted => ~SchemaParsed
        /\ SchemaParsed => lastProbe.exists = (lastProbe.name \in schemaDocument.actions)
        /\ (lastProbe.posted /\ postAnswer # "no_response") =>
              lastProbe.exists = (postAnswer # "404")

====
